---- MODULE Spec2Model ----
(***************************************************************************)
(* The proposal pipeline of graph/graph.py (planner, ask_user, researcher, *)
(* writer, evaluator, output) run by the chat handlers of app.py over one  *)
(* conversation thread: the checkpointed state record, the pending node    *)
(* set, the suspend-after boundaries, the revision loop and the resumes.   *)
(*                                                                         *)
(* Scores are whole points (0..10).  Text produced by a language model is  *)
(* one fixed token per field ("plan", "brief", "draft", "critique"); text  *)
(* typed by the user is drawn from Contents.  The task is kept as the      *)
(* sequence of user texts it is concatenated from.  The state record is a  *)
(* function from field names to values whose domain grows as fields are    *)
(* first written, so that state.get(key, default) is modelled as written.  *)
(* The field messages is outside this model.                               *)
(* questions_for_user is a field of the record as planner.py:81,           *)
(* app.py:164,196,251 and tests/test_graph.py:147-151 use it (the          *)
(* AgentState declaration of graph/state.py does not list it).             *)
(*                                                                         *)
(* The thread is one LangGraph thread id of the process-wide APP_GRAPH.     *)
(* Under Spec one chat connection is attached to it at a time; reopening    *)
(* the conversation (on_chat_resume) happens between two calls of main.     *)
(* Under TwoConnSpec a second connection has opened the same conversation   *)
(* and sends typed messages of its own.  An engine run works on the copy of *)
(* the checkpoint it loaded when it started and saves the copy after every  *)
(* stage; with one connection the copy and the checkpoint are the same.     *)
(***************************************************************************)
EXTENDS Integers, Sequences, FiniteSets, TLC

\* ---------------------------------------------------------------- bounds
\* largest iteration cap the environment variable MAX_ITERATIONS is given
MaxCap == 2
\* stage failures (a model or file-system call raising) in one behaviour
MaxFailures == 1
\* messages typed in one behaviour while two connections have the
\* conversation open
MaxTyped == 2
\* entries of the history log of one thread
MaxLog == 5
\* queries in one call of the search helper
MaxQueries == 3
\* results the search provider returns for one query
MaxHits == 1

\* ------------------------------------------------------------- constants
QUALITY_THRESHOLD == 7

\* texts a user message can carry; "proceed" is the text on_proceed sends,
\* the only one that starts with the "Proceeding" marker
Contents == {"proceed", "a", "b"}
\* the texts typed where one thread is followed through many calls: the
\* Proceed text and one other
ThreadContents == {"proceed", "a"}
\* overall scores the evaluator's model call returns
Scores == {5, 7, 9}
\* an evaluation whose five dimension scores and overall score are all s
UniformEvaluation(s) ==
    [clarity |-> s, persuasiveness |-> s, completeness |-> s, structure |-> s,
     specificity |-> s, overall_score |-> s]
\* an evaluation whose overall score is not the mean (7.8) of its dimensions
UnaveragedEvaluation ==
    [clarity |-> 8, persuasiveness |-> 7, completeness |-> 9, structure |-> 8,
     specificity |-> 7, overall_score |-> 9]
\* an evaluation above the 0-10 scale the field descriptions ask for
OutOfRangeEvaluation == UniformEvaluation(11)
\* structured results the evaluator's model call returns: the fields are
\* plain floats, nothing checks their range or that overall_score is the mean
EvaluationOutputs ==
    { UniformEvaluation(s) : s \in Scores }
        \cup {UnaveragedEvaluation, OutOfRangeEvaluation}
\* question lists the planner's model call returns
QuestionLists == {<< >>, <<"q1">>}
Caps == 1..MaxCap
\* search queries the researcher's model call produces
SearchQueries == {"q1", "q2"}

SCORE_DIMENSIONS ==
    {"Clarity", "Persuasiveness", "Completeness", "Structure", "Specificity"}
Nodes == {"planner", "ask_user", "researcher", "writer", "evaluator", "output"}
ActionNames == {"proceed", "edit_requirements", "reresearch"}

VARIABLES
    MAX_ITERATIONS,            \* graph.py:28, fixed when the process starts
    values,                    \* checkpoint: the state record of the thread
    next,                      \* checkpoint: the pending node set
    awaiting_planner_answers,  \* user_session flag
    is_processing,             \* user_session flag
    intent,                    \* user_session "intent": "none" is None
    actions,                   \* action buttons on screen
    pc,                        \* position of main: "idle", "stream", "post"
    run,                       \* state record and pending set the engine run
                               \* of main holds in memory
    second,                    \* the second chat connection: its session
                               \* flags, its position and its engine run
    \* what the running call of main has done; cleared when main returns
    path,                      \* stages completed by the engine call
    scores,                    \* scores the evaluator returned in the call
    pre,                       \* state record main read before its patch
    preNext,                   \* pending set main read before its patch
    asNode,                    \* node the patch was attributed to
    msg,                       \* text of the message main is handling
    written,                   \* fields of the last completed stage's update
    \* what earlier calls have left behind
    outcome,                   \* how the last returned engine call ended
    runFailed,                 \* a stage failed since the last fresh start
    failures,                  \* stage failures so far
    typed,                     \* messages typed while two connections are open
    feedbackUses,              \* stage executions that have put the current
                               \* user_feedback text into a prompt
    other,                     \* checkpoint the MemorySaver holds under a
                               \* second thread id
    disk,                      \* data layer: the thread files under
                               \* chat_history/threads, by thread id
    ran,                       \* researcher, evaluator: those that have completed
                               \* since the last fresh start
    shown,                     \* the last call of main that returned sent the
                               \* final proposal message
    call                       \* the last call of a function checked on its
                               \* own: its arguments, what it saw, its result

vars == <<MAX_ITERATIONS, values, next, awaiting_planner_answers, is_processing,
          intent, actions, pc, run, second, path, scores, pre, preNext, asNode, msg,
          written, outcome, runFailed, failures, typed, feedbackUses, other,
          disk, ran, shown, call>>

\* --------------------------------------------------------- state record
EmptyState == [k \in {} |-> 0]

\* state.get(key, default)
Get(state, key, default) == IF key \in DOMAIN state THEN state[key] ELSE default

\* field-level merge of a partial update into the state record
Merge(state, update) ==
    [k \in DOMAIN state \cup DOMAIN update |->
        IF k \in DOMAIN update THEN update[k] ELSE state[k]]

Last(s) == s[Len(s)]

\* no engine run in memory
NoRun == [values |-> EmptyState, next |-> {}]

\* chat_history/threads holds no file
NoFiles == EmptyState

\* no separately checked function has been called
NoCall == [op |-> "none"]

\* the second connection before it has opened the conversation
SecondClosed ==
    [pc |-> "closed", is_processing |-> FALSE,
     awaiting_planner_answers |-> FALSE, values |-> EmptyState, next |-> {}]
Count(s, x) == Cardinality({i \in 1..Len(s) : s[i] = x})

\* -------------------------------------------------------------- routers
\* mutant: the questions are asked only once the log has an entry
route_after_planner_from_log(state) ==
    IF /\ Get(state, "questions_for_user", << >>) # << >>
       /\ Get(state, "messages", << >>) # << >>
    THEN "ask_user"
    ELSE "researcher"

\* mutant: the planner's questions are never looked at
route_after_planner_skip(state) == "researcher"

route_after_planner(state) ==
    IF Get(state, "questions_for_user", << >>) # << >>
    THEN "ask_user"
    ELSE "researcher"

\* mutant: a finished loop is routed to the graph's end marker
route_evaluator_to_end(state) ==
    IF \/ Get(state, "score", 0) >= QUALITY_THRESHOLD
       \/ Get(state, "revision_count", 0) >= MAX_ITERATIONS
    THEN "__end__"
    ELSE "writer"

\* mutant: the cap is a literal of the router, not the process's constant
route_evaluator_fixed_cap(state) ==
    IF \/ Get(state, "score", 0) >= QUALITY_THRESHOLD
       \/ Get(state, "revision_count", 0) >= 1
    THEN "output"
    ELSE "writer"

\* mutant: the cap is tested with > instead of >=
route_evaluator_strict(state) ==
    IF \/ Get(state, "score", 0) >= QUALITY_THRESHOLD
       \/ Get(state, "revision_count", 0) > MAX_ITERATIONS
    THEN "output"
    ELSE "writer"

\* mutant: both tests have to pass (and instead of or)
route_evaluator_and(state) ==
    IF /\ Get(state, "score", 0) >= QUALITY_THRESHOLD
       /\ Get(state, "revision_count", 0) >= MAX_ITERATIONS
    THEN "output"
    ELSE "writer"

\* mutant: the score is not tested
route_evaluator_cap_only(state) ==
    IF Get(state, "revision_count", 0) >= MAX_ITERATIONS
    THEN "output"
    ELSE "writer"

route_evaluator(state) ==
    IF \/ Get(state, "score", 0) >= QUALITY_THRESHOLD
       \/ Get(state, "revision_count", 0) >= MAX_ITERATIONS
    THEN "output"
    ELSE "writer"

\* mutant: researcher is left out of interrupt_after
InterruptAfter_ask_user_only == {"ask_user"}

\* mutant: writer is added to interrupt_after
InterruptAfter_with_writer == {"ask_user", "researcher", "writer"}

\* interrupt_after of graph.compile
InterruptAfter == {"ask_user", "researcher"}

\* mutant: output is wired back to planner instead of END
Successors_output_to_planner(node, state) ==
    CASE node = "planner"    -> {route_after_planner(state)}
      [] node = "ask_user"   -> {"researcher"}
      [] node = "researcher" -> {"writer"}
      [] node = "writer"     -> {"evaluator"}
      [] node = "evaluator"  -> {route_evaluator(state)}
      [] node = "output"     -> {"planner"}

\* the edges of build_graph: the pending set after node has completed
Successors(node, state) ==
    CASE node = "planner"    -> {route_after_planner(state)}
      [] node = "ask_user"   -> {"researcher"}
      [] node = "researcher" -> {"writer"}
      [] node = "writer"     -> {"evaluator"}
      [] node = "evaluator"  -> {route_evaluator(state)}
      [] node = "output"     -> {}

\* ------------------------------------------------- the graph as built
START == "__start__"
END == "__end__"

\* mutant: researcher is wired to a node that was never added
UnconditionalEdges_unregistered ==
    {<<START, "planner">>, <<"ask_user", "researcher">>,
     <<"researcher", "drafter">>, <<"writer", "evaluator">>,
     <<"output", END>>}

\* the add_edge calls of build_graph
UnconditionalEdges ==
    {<<START, "planner">>, <<"ask_user", "researcher">>,
     <<"researcher", "writer">>, <<"writer", "evaluator">>,
     <<"output", END>>}

\* the nodes that have a conditional edge, and the mapping each
\* add_conditional_edges call declares: router result |-> node
ConditionalSources == {"planner", "evaluator"}
PathMap(node) ==
    CASE node = "planner"   -> [ask_user |-> "ask_user",
                                researcher |-> "researcher"]
      [] node = "evaluator" -> [output |-> "output", writer |-> "writer"]

\* the names a router may return, and the nodes they stand for
DeclaredNames(node) == DOMAIN PathMap(node)
ConditionalTargets(node) ==
    { PathMap(node)[name] : name \in DOMAIN PathMap(node) }

\* every edge of the built graph, conditional ones included
GraphEdges ==
    UnconditionalEdges
        \cup UNION { { <<node, target>> : target \in ConditionalTargets(node) } :
                       node \in ConditionalSources }

\* ---------------------------------------------------------------- stages
planner_node(state, questions) ==
    [plan |-> "plan", proposal_type |-> "Business",
     questions_for_user |-> questions]

ask_user_node(state) == EmptyState

\* mutant: the plan is not tested before the research
researcher_node_no_guard(state) ==
    [research_data |-> "brief", search_queries |-> <<"query">>]

researcher_node(state) ==
    IF Get(state, "plan", "") = ""
    THEN [research_data |-> "", search_queries |-> << >>]
    ELSE [research_data |-> "brief", search_queries |-> <<"query">>]

\* mutant: writer clears the critique it has just addressed
writer_node_clears_critique(state) == [draft |-> "draft", critique |-> ""]

writer_node(state) == [draft |-> "draft"]

\* mutant: the revision counter is returned as read
evaluator_node_no_increment(state, result) ==
    [score |-> result.overall_score, critique |-> "critique",
     dimension_scores |->
        [Clarity |-> result.clarity, Persuasiveness |-> result.persuasiveness,
         Completeness |-> result.completeness, Structure |-> result.structure,
         Specificity |-> result.specificity],
     revision_count |-> Get(state, "revision_count", 0)]

evaluator_node(state, result) ==
    [score |-> result.overall_score, critique |-> "critique",
     dimension_scores |->
        [Clarity |-> result.clarity, Persuasiveness |-> result.persuasiveness,
         Completeness |-> result.completeness, Structure |-> result.structure,
         Specificity |-> result.specificity],
     revision_count |-> Get(state, "revision_count", 0) + 1]

output_node(state) == EmptyState

\* mutant: the scorecard announces a revision whenever the score is low
finish_evaluator_score_only(output) ==
    IF Get(output, "score", 0) < QUALITY_THRESHOLD THEN "revising"
    ELSE "excellent"

\* what _finish_evaluator adds to the scorecard of an evaluator output:
\* "Revising draft", the quality bar being met, or nothing
finish_evaluator(output) ==
    IF /\ Get(output, "score", 0) < QUALITY_THRESHOLD
       /\ Get(output, "revision_count", 1) < MAX_ITERATIONS
    THEN "revising"
    ELSE IF Get(output, "score", 0) >= QUALITY_THRESHOLD THEN "excellent"
    ELSE "none"

\* mutant: writer adds the user's requirements to its first draft only
UsesFeedback_first_pass_only(node, state) ==
    \/ /\ node = "writer"
       /\ Get(state, "user_feedback", "") # ""
       /\ Get(state, "revision_count", 0) = 0
    \/ /\ node = "researcher"
       /\ Get(state, "plan", "") # ""
       /\ Get(state, "user_feedback", "") # ""

\* the stage puts a non-empty user_feedback into the prompt of its model
\* call: writer on every pass, researcher whenever it has a plan
UsesFeedback(node, state) ==
    \/ /\ node = "writer"
       /\ Get(state, "user_feedback", "") # ""
    \/ /\ node = "researcher"
       /\ Get(state, "plan", "") # ""
       /\ Get(state, "user_feedback", "") # ""

\* every stage but the no-op ask_user calls a model or the file system
FallibleNodes == Nodes \ {"ask_user"}

\* ------------------------------------------------------------ checkpoint
\* graph.aupdate_state(config, patch, as_node): the patch is merged as if
\* as_node had returned it, and the pending set becomes as_node's successor
UpdateStateValues(state, patch, as_node) == Merge(state, patch)

UpdateStateNext(state, patch, as_node) ==
    Successors(as_node, Merge(state, patch))

\* ------------------------------------------------------- main: a resume
StartsWithProceeding(content) == content = "proceed"

\* mutant: the re-research intent does not move the attribution
ResumeAsNode_ignores_intent(awaiting, content, intnt) ==
    IF awaiting THEN "ask_user" ELSE "researcher"

\* the node the resume patch is attributed to
ResumeAsNode(awaiting, content, intnt) ==
    IF awaiting THEN "ask_user"
    ELSE IF StartsWithProceeding(content) THEN "researcher"
    ELSE IF intnt = "reresearch" THEN "planner"
    ELSE "researcher"

\* mutant: the text of the Proceed message is stored as feedback
ResumePatch_keep_text(state, awaiting, content) ==
    IF awaiting
    THEN [task |-> Append(Get(state, "task", << >>), content),
          questions_for_user |-> << >>]
    ELSE [user_feedback |-> content]

\* mutant: the answered questions are not cleared
ResumePatch_keep_questions(state, awaiting, content) ==
    IF awaiting
    THEN [task |-> Append(Get(state, "task", << >>), content)]
    ELSE [user_feedback |-> IF StartsWithProceeding(content) THEN "" ELSE content]

\* mutant: typed feedback is appended to the task as well
ResumePatch_feedback_into_task(state, awaiting, content) ==
    IF awaiting
    THEN [task |-> Append(Get(state, "task", << >>), content),
          questions_for_user |-> << >>]
    ELSE [task |-> Append(Get(state, "task", << >>), content),
          user_feedback |-> IF StartsWithProceeding(content) THEN "" ELSE content]

\* the resume patch
ResumePatch(state, awaiting, content) ==
    IF awaiting
    THEN [task |-> Append(Get(state, "task", << >>), content),
          questions_for_user |-> << >>]
    ELSE [user_feedback |-> IF StartsWithProceeding(content) THEN "" ELSE content]

\* the intent the resume leaves in the session
ResumeIntent(awaiting, content, intnt) ==
    IF awaiting \/ StartsWithProceeding(content) THEN intnt
    ELSE IF intnt \in {"reresearch", "edit"} THEN "none"
    ELSE intnt

\* -------------------------------------------------- main: a fresh start
\* mutant: the fresh input does not carry score
FreshInputs_keep_score(content) ==
    [task |-> <<content>>, revision_count |-> 0,
     user_feedback |-> "", search_queries |-> << >>,
     dimension_scores |-> EmptyState, questions_for_user |-> << >>]

\* mutant: the fresh input does not carry revision_count
FreshInputs_keep_count(content) ==
    [task |-> <<content>>, score |-> 0,
     user_feedback |-> "", search_queries |-> << >>,
     dimension_scores |-> EmptyState, questions_for_user |-> << >>]

FreshInputs(content) ==
    [task |-> <<content>>, revision_count |-> 0, score |-> 0,
     user_feedback |-> "", search_queries |-> << >>,
     dimension_scores |-> EmptyState, questions_for_user |-> << >>]

\* ------------------------------------------------------------------ Init
\* on_chat_start, or the first on_chat_resume of a conversation: the thread
\* id has no checkpoint, nothing is pending
Init ==
    /\ MAX_ITERATIONS \in Caps
    /\ values = EmptyState
    /\ next = {}
    /\ awaiting_planner_answers = FALSE
    /\ is_processing = FALSE
    /\ intent = "none"
    /\ actions = {}
    /\ pc = "idle"
    /\ run = NoRun
    /\ second = SecondClosed
    /\ path = << >>
    /\ scores = << >>
    /\ pre = EmptyState
    /\ preNext = {}
    /\ asNode = "none"
    /\ msg = "none"
    /\ written = {}
    /\ outcome = "new"
    /\ runFailed = FALSE
    /\ failures = 0
    /\ typed = 0
    /\ feedbackUses = 0
    /\ other = NoRun
    /\ disk = NoFiles
    /\ ran = {}
    /\ shown = FALSE
    /\ call = NoCall

\* --------------------------------------------------------------- actions
\* main up to the creation of the event stream (app.py:143-198)
MainBody(content) ==
    /\ ~is_processing
    /\ second.pc = "closed" \/ typed < MaxTyped
    /\ typed' = IF second.pc = "closed" THEN typed ELSE typed + 1
    /\ is_processing' = TRUE
    /\ pc' = "stream"
    /\ path' = << >>
    /\ scores' = << >>
    /\ pre' = values
    /\ preNext' = next
    /\ msg' = content
    /\ written' = {}
    /\ IF next # {}
       THEN LET as_node == ResumeAsNode(awaiting_planner_answers, content, intent)
                patch   == ResumePatch(values, awaiting_planner_answers, content)
            IN /\ awaiting_planner_answers' = FALSE
               /\ feedbackUses' = IF "user_feedback" \in DOMAIN patch
                                  THEN 0 ELSE feedbackUses
               /\ intent' = ResumeIntent(awaiting_planner_answers, content, intent)
               /\ asNode' = as_node
               /\ values' = UpdateStateValues(values, patch, as_node)
               /\ next' = UpdateStateNext(values, patch, as_node)
               /\ UNCHANGED runFailed
       ELSE /\ values' = Merge(values, FreshInputs(content))
            /\ next' = {"planner"}
            /\ asNode' = "none"
            /\ runFailed' = FALSE
            /\ feedbackUses' = 0
            /\ UNCHANGED <<awaiting_planner_answers, intent>>
    /\ run' = [values |-> values', next |-> next']
    /\ ran' = IF next # {} THEN ran ELSE {}
    /\ shown' = FALSE
    /\ UNCHANGED <<MAX_ITERATIONS, other, disk, call, second, outcome, failures>>

\* a typed message
main ==
    \E content \in Contents :
        /\ MainBody(content)
        /\ UNCHANGED actions

\* a stage completes inside the stream loop of main: the engine merges its
\* update, routes, and suspends after an interrupt_after node
Complete(node, update) ==
    /\ pc = "stream"
    /\ node \in run.next
    /\ values' = Merge(run.values, update)
    /\ next' = Successors(node, Merge(run.values, update))
    /\ run' = [values |-> values', next |-> next']
    /\ path' = Append(path, node)
    /\ written' = DOMAIN update
    /\ feedbackUses' = IF UsesFeedback(node, run.values)
                       THEN feedbackUses + 1 ELSE feedbackUses
    /\ pc' = IF node \in InterruptAfter \/ Successors(node, Merge(run.values, update)) = {}
             THEN "post" ELSE "stream"
    /\ outcome' = IF node \in InterruptAfter THEN node
                  ELSE IF Successors(node, Merge(run.values, update)) = {} THEN "completed"
                  ELSE outcome
    /\ ran' = ran \cup ({node} \cap {"researcher", "evaluator"})
    /\ UNCHANGED <<MAX_ITERATIONS, shown, other, disk, call, is_processing, intent, second, pre, preNext,
                   asNode, msg, runFailed, failures, typed>>

RunPlanner ==
    \E questions \in QuestionLists :
        /\ Complete("planner", planner_node(run.values, questions))
        /\ UNCHANGED <<awaiting_planner_answers, actions, scores>>

\* on_chain_end of ask_user reads the checkpoint, shows the questions and
\* sets the session flag
RunAskUser ==
    /\ Complete("ask_user", ask_user_node(run.values))
    /\ awaiting_planner_answers' =
          IF Get(values, "questions_for_user", << >>) # << >>
          THEN TRUE ELSE awaiting_planner_answers
    /\ UNCHANGED <<actions, scores>>

\* _finish_researcher sends the three action buttons
RunResearcher ==
    /\ Complete("researcher", researcher_node(run.values))
    /\ actions' = ActionNames
    /\ UNCHANGED <<awaiting_planner_answers, scores>>

RunWriter ==
    /\ Complete("writer", writer_node(run.values))
    /\ UNCHANGED <<awaiting_planner_answers, actions, scores>>

RunEvaluator ==
    \E result \in EvaluationOutputs :
        /\ Complete("evaluator", evaluator_node(run.values, result))
        /\ scores' = Append(scores, result.overall_score)
        /\ UNCHANGED <<awaiting_planner_answers, actions>>

RunOutput ==
    /\ Complete("output", output_node(run.values))
    /\ UNCHANGED <<awaiting_planner_answers, actions, scores>>

\* mutant: the final proposal is shown whenever there is a draft
ShowsFinalProposal_any_draft(state, pending) == Get(state, "draft", "") # ""

\* the test main makes after the stream: a draft, and nothing pending
ShowsFinalProposal(state, pending) ==
    Get(state, "draft", "") # "" /\ pending = {}

\* mutant: the flag is reset on the normal path only
FlagOnReturn_no_finally(raised) == raised

\* the busy flag main leaves behind: its finally clause resets it whether
\* the body returned or raised
FlagOnReturn(raised) == FALSE

\* main has returned: nothing is recorded of the call any more
CallCleared ==
    /\ path' = << >>
    /\ scores' = << >>
    /\ pre' = EmptyState
    /\ preNext' = {}
    /\ asNode' = "none"
    /\ msg' = "none"
    /\ written' = {}
    /\ run' = NoRun

\* a stage raises: the checkpoint keeps the pending node, the exception
\* leaves main through its finally clause
StageFails ==
    /\ pc = "stream"
    /\ failures < MaxFailures
    /\ \E node \in run.next : node \in FallibleNodes
    /\ pc' = "idle"
    /\ is_processing' = FlagOnReturn(TRUE)
    /\ outcome' = "error"
    /\ runFailed' = TRUE
    /\ failures' = failures + 1
    /\ CallCleared
    /\ UNCHANGED <<MAX_ITERATIONS, ran, shown, other, disk, call, values, next, awaiting_planner_answers, intent,
                   actions, second, typed, feedbackUses>>

\* the stream is exhausted: main reads the checkpoint, sends the final
\* proposal message when its test passes, and returns through its finally
\* clause
MainFinish ==
    /\ pc = "post"
    /\ pc' = "idle"
    /\ is_processing' = FlagOnReturn(FALSE)
    /\ CallCleared
    /\ shown' = ShowsFinalProposal(values, next)
    /\ UNCHANGED <<MAX_ITERATIONS, ran, other, disk, call, values, next, awaiting_planner_answers, intent,
                   actions, second, outcome, runFailed, failures, typed, feedbackUses>>

\* the chat is reopened: a new user_session for the same thread id
on_chat_resume ==
    /\ pc = "idle"
    /\ awaiting_planner_answers' = FALSE
    /\ is_processing' = FALSE
    /\ intent' = "none"
    /\ UNCHANGED <<MAX_ITERATIONS, ran, shown, other, disk, call, values, next, actions, pc, run, second, path,
                   scores, pre,
                   preNext, asNode, msg, written, outcome, runFailed, failures,
                   typed, feedbackUses>>

on_proceed ==
    /\ "proceed" \in actions
    /\ actions' = actions \ {"proceed"}
    /\ MainBody("proceed")

on_edit ==
    /\ ~is_processing
    /\ "edit_requirements" \in actions
    /\ actions' = actions \ {"edit_requirements"}
    /\ intent' = "edit"
    /\ UNCHANGED <<MAX_ITERATIONS, ran, shown, other, disk, call, values, next, awaiting_planner_answers,
                   is_processing, pc, run, second, path, scores, pre, preNext,
                   asNode, msg, written, outcome, runFailed, failures, typed, feedbackUses>>

on_reresearch ==
    /\ ~is_processing
    /\ "reresearch" \in actions
    /\ actions' = actions \ {"reresearch"}
    /\ intent' = "reresearch"
    /\ UNCHANGED <<MAX_ITERATIONS, ran, shown, other, disk, call, values, next, awaiting_planner_answers,
                   is_processing, pc, run, second, path, scores, pre, preNext,
                   asNode, msg, written, outcome, runFailed, failures, typed, feedbackUses>>

Next ==
    \/ main
    \/ RunPlanner
    \/ RunAskUser
    \/ RunResearcher
    \/ RunWriter
    \/ RunEvaluator
    \/ RunOutput
    \/ StageFails
    \/ MainFinish
    \/ on_chat_resume
    \/ on_proceed
    \/ on_edit
    \/ on_reresearch

Spec == Init /\ [][Next]_vars

\* sanity: the busy flag is set exactly while main is running
TypeOK ==
    /\ is_processing = (pc # "idle")
    /\ Cardinality(next) <= 1
    /\ next \subseteq Nodes
    /\ run = (IF pc = "idle" THEN NoRun ELSE [values |-> values, next |-> next])
    /\ second = SecondClosed

\* ------------------------------------------------ a second connection
\* The conversation is open in a second chat connection as well.  It has a
\* user_session of its own and the thread id and APP_GRAPH of the first.
\* Its user types messages and does not use the action buttons, so its
\* intent stays None; its stages do not raise.

\* the second connection after its on_chat_resume
SecondOpened == [SecondClosed EXCEPT !.pc = "idle"]

\* on_chat_resume in both connections on a thread id without a checkpoint
TwoConnInit ==
    /\ MAX_ITERATIONS \in Caps
    /\ values = EmptyState
    /\ next = {}
    /\ awaiting_planner_answers = FALSE
    /\ is_processing = FALSE
    /\ intent = "none"
    /\ actions = {}
    /\ pc = "idle"
    /\ run = NoRun
    /\ second = SecondOpened
    /\ path = << >>
    /\ scores = << >>
    /\ pre = EmptyState
    /\ preNext = {}
    /\ asNode = "none"
    /\ msg = "none"
    /\ written = {}
    /\ outcome = "new"
    /\ runFailed = FALSE
    /\ failures = 0
    /\ typed = 0
    /\ feedbackUses = 0
    /\ other = NoRun
    /\ disk = NoFiles
    /\ ran = {}
    /\ shown = FALSE
    /\ call = NoCall

\* main in the second connection, up to the creation of the event stream
second_main ==
    \E content \in Contents :
        /\ second.pc = "idle"
        /\ ~second.is_processing
        /\ typed < MaxTyped
        /\ typed' = typed + 1
        /\ IF next # {}
           THEN LET as_node == ResumeAsNode(second.awaiting_planner_answers,
                                            content, "none")
                    patch   == ResumePatch(values, second.awaiting_planner_answers,
                                           content)
                IN /\ values' = UpdateStateValues(values, patch, as_node)
                   /\ next' = UpdateStateNext(values, patch, as_node)
                   /\ feedbackUses' = IF "user_feedback" \in DOMAIN patch
                                      THEN 0 ELSE feedbackUses
                   /\ second' = [pc |-> "stream", is_processing |-> TRUE,
                                 awaiting_planner_answers |-> FALSE,
                                 values |-> values', next |-> next']
           ELSE /\ values' = Merge(values, FreshInputs(content))
                /\ next' = {"planner"}
                /\ feedbackUses' = 0
                /\ second' = [second EXCEPT !.pc = "stream",
                                            !.is_processing = TRUE,
                                            !.values = values',
                                            !.next = next']
        /\ UNCHANGED <<MAX_ITERATIONS, ran, shown, other, disk, call, awaiting_planner_answers, is_processing,
                       intent, actions, pc, run, path, scores, pre, preNext,
                       asNode, msg, written, outcome, runFailed, failures>>

\* the partial update node returns for the state record it is given
StageUpdate(node, state, questions, result) ==
    CASE node = "planner"    -> planner_node(state, questions)
      [] node = "ask_user"   -> ask_user_node(state)
      [] node = "researcher" -> researcher_node(state)
      [] node = "writer"     -> writer_node(state)
      [] node = "evaluator"  -> evaluator_node(state, result)
      [] node = "output"     -> output_node(state)

\* a stage completes inside the stream loop of the second connection
second_stage ==
    \E node \in second.next, questions \in QuestionLists,
       result \in EvaluationOutputs :
        LET merged == Merge(second.values,
                            StageUpdate(node, second.values, questions, result))
            succ   == Successors(node, merged)
        IN /\ second.pc = "stream"
           /\ values' = merged
           /\ next' = succ
           /\ feedbackUses' = IF UsesFeedback(node, second.values)
                              THEN feedbackUses + 1 ELSE feedbackUses
           /\ second' =
                 [pc |-> IF node \in InterruptAfter \/ succ = {}
                         THEN "post" ELSE "stream",
                  is_processing |-> TRUE,
                  awaiting_planner_answers |->
                     IF node = "ask_user"
                        /\ Get(values, "questions_for_user", << >>) # << >>
                     THEN TRUE ELSE second.awaiting_planner_answers,
                  values |-> merged,
                  next |-> succ]
           /\ UNCHANGED <<MAX_ITERATIONS, ran, shown, other, disk, call, awaiting_planner_answers, is_processing,
                          intent, actions, pc, run, path, scores, pre, preNext,
                          asNode, msg, written, outcome, runFailed, failures, typed>>

\* the stream of the second connection is exhausted: its main returns
second_main_finish ==
    /\ second.pc = "post"
    /\ second' = [second EXCEPT !.pc = "idle", !.is_processing = FALSE,
                                !.values = EmptyState, !.next = {}]
    /\ UNCHANGED <<MAX_ITERATIONS, ran, shown, other, disk, call, values, next, awaiting_planner_answers,
                   is_processing, intent, actions, pc, run, path, scores, pre,
                   preNext, asNode, msg, written, outcome, runFailed, failures,
                   typed, feedbackUses>>

\* typed messages and engine runs of the two connections, interleaved
TwoConnNext ==
    \/ main
    \/ RunPlanner
    \/ RunAskUser
    \/ RunResearcher
    \/ RunWriter
    \/ RunEvaluator
    \/ RunOutput
    \/ MainFinish
    \/ second_main
    \/ second_stage
    \/ second_main_finish

TwoConnSpec == TwoConnInit /\ [][TwoConnNext]_vars

\* ------------------------------------------- the router, on its own inputs
\* state records with and without a score and a revision_count
RouterStates ==
    { Merge(a, b) :
        a \in {EmptyState} \cup { [score |-> x] : x \in 0..10 },
        b \in {EmptyState} \cup { [revision_count |-> r] : r \in 0..(MaxCap + 1) } }

RouterInit ==
    /\ MAX_ITERATIONS \in Caps
    /\ values \in RouterStates
    /\ next = {"evaluator"}
    /\ awaiting_planner_answers = FALSE
    /\ is_processing = TRUE
    /\ intent = "none"
    /\ actions = {}
    /\ pc = "stream"
    /\ run = [values |-> values, next |-> next]
    /\ second = SecondClosed
    /\ path = << >>
    /\ scores = << >>
    /\ pre = EmptyState
    /\ preNext = {}
    /\ asNode = "none"
    /\ msg = "none"
    /\ written = {}
    /\ outcome = "new"
    /\ runFailed = FALSE
    /\ failures = 0
    /\ typed = 0
    /\ feedbackUses = 0
    /\ other = NoRun
    /\ disk = NoFiles
    /\ ran = {}
    /\ shown = FALSE
    /\ call = NoCall

\* the conditional edge out of evaluator, applied to the record as it is
RouteEvaluator ==
    /\ pc = "stream"
    /\ next = {"evaluator"}
    /\ next' = Successors("evaluator", values)
    /\ path' = Append(path, "evaluator")
    /\ UNCHANGED <<MAX_ITERATIONS, ran, shown, other, disk, call, values, awaiting_planner_answers, is_processing,
                   intent, actions, pc, run, second, scores, pre, preNext, asNode,
                   msg, written,
                   outcome, runFailed, failures, typed, feedbackUses>>

RouterSpec == RouterInit /\ [][RouteEvaluator]_vars

\* --------------------------------------------------- the history log
\* a message as a node or main builds it: no id yet
AIMessage(content) == [id |-> 0, type |-> "ai", content |-> content]
HumanMessage(content) == [id |-> 0, type |-> "human", content |-> content]

\* the id add_messages gives a message that has none (a uuid4): one that no
\* message of the list carries
FreshId(left) == Len(left) + 1

\* a messages field with no reducer: the update replaces the list
add_messages_overwrite(left, right) ==
    [i \in 1..Len(right) |-> [right[i] EXCEPT !.id = i]]

\* the reducer of the messages field: a message without id gets a fresh one;
\* a message whose id is in the list replaces that entry, any other message
\* is appended
RECURSIVE add_messages(_, _)
add_messages(left, right) ==
    IF right = << >> THEN left
    ELSE LET m     == IF Head(right).id = 0
                      THEN [Head(right) EXCEPT !.id = FreshId(left)]
                      ELSE Head(right)
             found == { i \in 1..Len(left) : left[i].id = m.id }
         IN  add_messages(IF found = {} THEN Append(left, m)
                          ELSE [i \in 1..Len(left) |->
                                   IF i \in found THEN m ELSE left[i]],
                          Tail(right))

\* the messages entry of the update a node returns
StageMessages(node, state) ==
    CASE node = "planner"    -> <<AIMessage("plan")>>
      [] node = "ask_user"   -> << >>
      [] node = "researcher" ->
            IF Get(state, "plan", "") = ""
            THEN <<AIMessage("No plan provided to research.")>>
            ELSE <<AIMessage("brief")>>
      [] node = "writer"     -> <<AIMessage("Draft created")>>
      [] node = "evaluator"  -> <<AIMessage("Evaluated draft")>>
      [] node = "output"     -> <<AIMessage("Saved proposal")>>

\* the services a node calls before it returns: the language model, the
\* search provider, the file system
ExternalCalls(node, state) ==
    CASE node = "planner"    -> {"llm"}
      [] node = "ask_user"   -> {}
      [] node = "researcher" ->
            IF Get(state, "plan", "") = "" THEN {} ELSE {"llm", "search"}
      [] node = "writer"     -> {"llm"}
      [] node = "evaluator"  -> {"llm"}
      [] node = "output"     -> {"file"}

\* the engine merges an update into the state record: messages through its
\* reducer, every other field by replacement
ApplyWrites(state, update, messages) ==
    Merge(Merge(state, update),
          [messages |-> add_messages(Get(state, "messages", << >>), messages)])

\* ------------------------------------------- the engine on one thread
\* checkpoints an earlier call can have left under the thread id: an empty
\* log, the plan missing, empty or written, questions asked
\* or not, the score and the revision count low or high
EngineStates ==
    { Merge(Merge([messages |-> log, score |-> sc, revision_count |-> rc],
                  plan), questions) :
        log \in {<< >>},
        sc \in {0, 9}, rc \in {0, MaxCap},
        plan \in {EmptyState, [plan |-> ""], [plan |-> "plan"]},
        questions \in {EmptyState, [questions_for_user |-> <<"q1">>]} }

\* pc = "stream": an engine run is under way; "idle": it has finished or is
\* suspended. path: the stages completed since the last fresh input
EngineInit ==
    /\ MAX_ITERATIONS \in Caps
    /\ values \in EngineStates
    /\ next \in { {node} : node \in Nodes }
    /\ pc = "stream"
    /\ awaiting_planner_answers = FALSE
    /\ is_processing = TRUE
    /\ intent = "none"
    /\ actions = {}
    /\ run = NoRun
    /\ second = SecondClosed
    /\ path = << >>
    /\ scores = << >>
    /\ pre = EmptyState
    /\ preNext = {}
    /\ asNode = "none"
    /\ msg = "none"
    /\ written = {}
    /\ outcome = "new"
    /\ runFailed = FALSE
    /\ failures = 0
    /\ typed = 0
    /\ feedbackUses = 0
    /\ other = NoRun
    /\ disk = NoFiles
    /\ ran = {}
    /\ shown = FALSE
    /\ call = NoCall

EngineFrame ==
    UNCHANGED <<MAX_ITERATIONS, ran, shown, other, disk, awaiting_planner_answers,
                is_processing, intent, actions, run, second, scores, pre,
                preNext, asNode, msg, written, outcome, runFailed, failures,
                typed, feedbackUses>>

\* the engine runs the pending node, merges its update, follows its edge and
\* suspends after a node of interrupt_after
EngineStage ==
    /\ pc = "stream"
    /\ Len(path) <= MaxLog
    /\ \E node \in next, questions \in QuestionLists,
          result \in { UniformEvaluation(s) : s \in Scores } :
         /\ Len(values.messages) + Len(StageMessages(node, values)) <= MaxLog
         /\ values' = ApplyWrites(values,
                                  StageUpdate(node, values, questions, result),
                                  StageMessages(node, values))
         /\ next' = Successors(node, values')
         /\ path' = Append(path, node)
         /\ pc' = IF node \in InterruptAfter \/ next' = {} THEN "idle"
                  ELSE "stream"
         /\ call' = [op |-> "stage", node |-> node, before |-> values,
                     calls |-> ExternalCalls(node, values)]
    /\ EngineFrame

\* main starts a run from a fresh input on a thread with nothing pending
EngineInput ==
    /\ pc = "idle"
    /\ next = {}
    /\ Len(values.messages) < MaxLog
    /\ \E content \in ThreadContents :
         /\ values' = ApplyWrites(values, FreshInputs(content),
                                  <<HumanMessage(content)>>)
         /\ call' = [op |-> "input", node |-> "none", before |-> values,
                     calls |-> {}]
    /\ next' = {"planner"}
    /\ path' = << >>
    /\ pc' = "stream"
    /\ EngineFrame

\* main resumes a suspended run: aupdate_state with the resume patch
EnginePatch ==
    /\ pc = "idle"
    /\ next # {}
    /\ \E awaiting \in BOOLEAN, content \in ThreadContents,
          intnt \in {"none", "reresearch"} :
         LET patch   == ResumePatch(values, awaiting, content)
             as_node == ResumeAsNode(awaiting, content, intnt)
         IN  /\ values' = UpdateStateValues(values, patch, as_node)
             /\ next' = UpdateStateNext(values, patch, as_node)
             /\ call' = [op |-> "patch", node |-> as_node, before |-> values,
                         calls |-> {}]
    /\ pc' = "stream"
    /\ UNCHANGED path
    /\ EngineFrame

EngineNext ==
    \/ EngineStage
    \/ EngineInput
    \/ EnginePatch

EngineSpec == EngineInit /\ [][EngineNext]_vars

\* ------------------------------------------ two sessions, two threads
\* two chat sessions of the one process, each on a conversation of its own
Sessions == {"A", "B"}

\* the thread id start and on_chat_resume put into the session's config: the
\* session's own id, or the id of the conversation it reopened
ConfigThreadId(session) == IF session = "A" THEN "t1" ELSE "t2"

\* the session's config["configurable"]
Configurable(session) == [thread_id |-> ConfigThreadId(session)]

\* what the MemorySaver of APP_GRAPH holds under a thread id
Checkpoint(thread_id) ==
    IF thread_id = "t1" THEN [values |-> values, next |-> next] ELSE other

\* mutant: a saver with one slot: every checkpoint replaces the others
PutCheckpoint_single(thread_id, checkpoint) ==
    /\ values' = checkpoint.values
    /\ next' = checkpoint.next
    /\ other' = checkpoint

\* the MemorySaver stores a checkpoint under a thread id
PutCheckpoint(thread_id, checkpoint) ==
    IF thread_id = "t1"
    THEN /\ values' = checkpoint.values
         /\ next' = checkpoint.next
         /\ UNCHANGED other
    ELSE /\ other' = checkpoint
         /\ UNCHANGED <<values, next>>

ThreadsFrame ==
    UNCHANGED <<MAX_ITERATIONS, ran, shown, disk, awaiting_planner_answers, is_processing,
                intent, actions, pc, run, second, path, scores, pre, preNext,
                asNode, msg, written, outcome, runFailed, failures,
                feedbackUses>>

\* a session starts a run from a fresh input on its thread
ThreadInput(session) ==
    LET thread_id == Configurable(session).thread_id
        before    == Checkpoint(thread_id)
    IN  /\ before.next = {}
        /\ typed < MaxTyped
        /\ typed' = typed + 1
        /\ \E content \in ThreadContents :
              PutCheckpoint(thread_id,
                  [values |-> Merge(before.values, FreshInputs(content)),
                   next |-> {"planner"}])
        /\ call' = [op |-> "input", session |-> session, node |-> "none",
                    thread_id |-> thread_id]
        /\ ThreadsFrame

\* a session patches its thread's state with aupdate_state before a resume
ThreadPatch(session) ==
    LET thread_id == Configurable(session).thread_id
        before    == Checkpoint(thread_id)
    IN  /\ before.next # {}
        /\ typed < MaxTyped
        /\ typed' = typed + 1
        /\ \E awaiting \in BOOLEAN, content \in ThreadContents,
              intnt \in {"none", "reresearch"} :
              LET patch   == ResumePatch(before.values, awaiting, content)
                  as_node == ResumeAsNode(awaiting, content, intnt)
              IN  /\ PutCheckpoint(thread_id,
                        [values |-> UpdateStateValues(before.values, patch, as_node),
                         next |-> UpdateStateNext(before.values, patch, as_node)])
                  /\ call' = [op |-> "patch", session |-> session,
                              node |-> as_node, thread_id |-> thread_id]
        /\ ThreadsFrame

\* the engine run of a session completes the pending stage of its thread
ThreadStage(session) ==
    LET thread_id == Configurable(session).thread_id
        before    == Checkpoint(thread_id)
    IN  /\ \E node \in before.next, questions \in QuestionLists,
              result \in { UniformEvaluation(s) : s \in Scores } :
              LET after == Merge(before.values,
                                 StageUpdate(node, before.values, questions, result))
              IN  /\ PutCheckpoint(thread_id,
                        [values |-> after, next |-> Successors(node, after)])
                  /\ call' = [op |-> "stage", session |-> session,
                              node |-> node, thread_id |-> thread_id]
        /\ UNCHANGED typed
        /\ ThreadsFrame

ThreadsNext ==
    \E session \in Sessions :
        \/ ThreadInput(session)
        \/ ThreadPatch(session)
        \/ ThreadStage(session)

ThreadsSpec == Init /\ [][ThreadsNext]_vars

\* ---------------------------------------------------------- data layer
\* every function below runs under the module's one asyncio lock, so a call
\* is one step; createdAt, metadata and tags are left out of the thread
ThreadIds == {"t1", "t2"}
Names == {"n1", "n2"}
UserIds == {"u1", "u2"}
StepIds == {"s1", "s2"}
StepOutputs == {"x", "y"}
\* an argument passed as None, or a key a dict does not have
NoneArg == "None"
\* the None get_thread returns
NoThread == EmptyState

\* the dict update_thread and create_step start from when the file is missing
NewThread(thread_id) == [id |-> thread_id, steps |-> << >>]

\* _read_json(path) or {...}
ReadThread(d, thread_id) ==
    IF thread_id \in DOMAIN d THEN d[thread_id] ELSE NewThread(thread_id)

\* _write_json(path, thread)
WriteThread(d, thread_id, thread) == Merge(d, [t \in {thread_id} |-> thread])

\* the compatibility step of get_thread and list_threads
WithUserIdentifier(data) ==
    IF "userIdentifier" \notin DOMAIN data /\ "userId" \in DOMAIN data
    THEN Merge(data, [userIdentifier |-> data.userId])
    ELSE data

get_thread(d, thread_id) ==
    IF thread_id \in DOMAIN d THEN WithUserIdentifier(d[thread_id])
    ELSE NoThread

\* update_thread that starts from a new dict on every call
update_thread_fresh(d, thread_id, name, user_id) ==
    LET thread == NewThread(thread_id)
        named  == IF name # NoneArg THEN Merge(thread, [name |-> name])
                  ELSE thread
        owned  == IF user_id # NoneArg
                  THEN Merge(named, [userId |-> user_id,
                                     userIdentifier |-> user_id])
                  ELSE named
    IN  WriteThread(d, thread_id, owned)

update_thread(d, thread_id, name, user_id) ==
    LET thread == ReadThread(d, thread_id)
        named  == IF name # NoneArg THEN Merge(thread, [name |-> name])
                  ELSE thread
        owned  == IF user_id # NoneArg
                  THEN Merge(named, [userId |-> user_id,
                                     userIdentifier |-> user_id])
                  ELSE named
    IN  WriteThread(d, thread_id, owned)

delete_thread(d, thread_id) == [t \in DOMAIN d \ {thread_id} |-> d[t]]

\* the threads list_threads collects for a user filter (NoneArg: no filter),
\* before sorting and paging
list_threads(d, userId) ==
    { WithUserIdentifier(d[t]) :
        t \in { u \in DOMAIN d :
                  userId = NoneArg \/ Get(d[u], "userId", NoneArg) = userId } }

create_step(d, step_dict) ==
    IF step_dict.threadId = NoneArg THEN d
    ELSE LET thread == ReadThread(d, step_dict.threadId)
         IN  WriteThread(d, step_dict.threadId,
                 Merge(thread, [steps |-> Append(thread.steps, step_dict)]))

\* update_step that appends the step when no step has its id
update_step_upsert(d, step_dict) ==
    IF step_dict.threadId = NoneArg \/ step_dict.threadId \notin DOMAIN d
    THEN d
    ELSE LET thread == d[step_dict.threadId]
             found  == { i \in 1..Len(thread.steps) :
                           thread.steps[i].id = step_dict.id }
         IN  WriteThread(d, step_dict.threadId,
                 Merge(thread,
                       [steps |-> IF found = {}
                                  THEN Append(thread.steps, step_dict)
                                  ELSE [i \in 1..Len(thread.steps) |->
                                          IF i \in found THEN step_dict
                                          ELSE thread.steps[i]]]))

\* the first step with the id is replaced, then the loop breaks
update_step(d, step_dict) ==
    IF step_dict.threadId = NoneArg \/ step_dict.threadId \notin DOMAIN d
    THEN d
    ELSE LET thread == d[step_dict.threadId]
             found  == { i \in 1..Len(thread.steps) :
                           thread.steps[i].id = step_dict.id }
             first  == CHOOSE i \in found : \A j \in found : i <= j
         IN  WriteThread(d, step_dict.threadId,
                 Merge(thread,
                       [steps |-> IF found = {} THEN thread.steps
                                  ELSE [thread.steps EXCEPT ![first] = step_dict]]))

\* threads that hold a step with the id
ThreadsWithStep(d, step_id) ==
    { t \in DOMAIN d : \E i \in 1..Len(d[t].steps) : d[t].steps[i].id = step_id }

\* delete_step once the directory listing has reached thread_id, the first
\* thread it meets that holds the id: that thread is rewritten, and the
\* function returns
delete_step(d, thread_id, step_id) ==
    WriteThread(d, thread_id,
        Merge(d[thread_id],
              [steps |-> SelectSeq(d[thread_id].steps,
                                   LAMBDA st : st.id # step_id)]))

\* step dicts the callers pass: Chainlit gives every step a fresh uuid4 id
StepDicts ==
    [id : StepIds, threadId : ThreadIds \cup {NoneArg}, output : StepOutputs]

\* what a data layer call leaves alone
StoreFrame ==
    UNCHANGED <<MAX_ITERATIONS, ran, shown, other, values, next, awaiting_planner_answers,
                is_processing, intent, actions, pc, run, second, path, scores,
                pre, preNext, asNode, msg, written, outcome, runFailed,
                failures, typed, feedbackUses>>

UpdateThread ==
    /\ \E thread_id \in ThreadIds, name \in Names \cup {NoneArg},
          user_id \in UserIds \cup {NoneArg} :
         /\ disk' = update_thread(disk, thread_id, name, user_id)
         /\ call' = [op |-> "update_thread", thread_id |-> thread_id,
                     name |-> name, user_id |-> user_id, before |-> disk]
    /\ StoreFrame

DeleteThread ==
    /\ \E thread_id \in ThreadIds :
         /\ disk' = delete_thread(disk, thread_id)
         /\ call' = [op |-> "delete_thread", thread_id |-> thread_id,
                     before |-> disk]
    /\ StoreFrame

CreateStep ==
    /\ \E step_dict \in StepDicts :
         /\ ThreadsWithStep(disk, step_dict.id) = {}
         /\ disk' = create_step(disk, step_dict)
         /\ call' = [op |-> "create_step", step_dict |-> step_dict,
                     before |-> disk]
    /\ StoreFrame

UpdateStep ==
    /\ \E step_dict \in StepDicts :
         /\ disk' = update_step(disk, step_dict)
         /\ call' = [op |-> "update_step", step_dict |-> step_dict,
                     before |-> disk]
    /\ StoreFrame

\* os.listdir gives the thread files in no particular order
DeleteStep ==
    /\ \E step_id \in StepIds :
         /\ IF ThreadsWithStep(disk, step_id) = {}
            THEN disk' = disk
            ELSE \E thread_id \in ThreadsWithStep(disk, step_id) :
                    disk' = delete_step(disk, thread_id, step_id)
         /\ call' = [op |-> "delete_step", step_id |-> step_id,
                     before |-> disk]
    /\ StoreFrame

StoreNext ==
    \/ UpdateThread
    \/ DeleteThread
    \/ CreateStep
    \/ UpdateStep
    \/ DeleteStep

\* an empty chat_history directory; the iteration cap plays no part here
StoreInit == Init /\ MAX_ITERATIONS = 1

StoreSpec == StoreInit /\ [][StoreNext]_vars

\* ------------------------------------------- data layer: concurrency
\* coroutines of one event loop call the data layer at the same time; each
\* enters its critical section through the module's lock, reads the files,
\* and writes before it leaves
MaxTasks == 3

\* the calls the coroutines make
Requests ==
    <<[op |-> "create_step",
       step_dict |-> [id |-> "s1", threadId |-> "t1", output |-> "x"]],
      [op |-> "create_step",
       step_dict |-> [id |-> "s2", threadId |-> "t1", output |-> "x"]],
      [op |-> "create_step",
       step_dict |-> [id |-> "s1", threadId |-> "t2", output |-> "x"]],
      [op |-> "update_step",
       step_dict |-> [id |-> "s1", threadId |-> "t1", output |-> "y"]],
      [op |-> "delete_step", step_id |-> "s1"],
      [op |-> "update_thread", thread_id |-> "t1", name |-> "n1",
       user_id |-> NoneArg],
      [op |-> "update_thread", thread_id |-> "t1", name |-> NoneArg,
       user_id |-> "u1"],
      [op |-> "delete_thread", thread_id |-> "t1"]>>

\* the files a batch of calls finds
StartFiles ==
    { NoFiles,
      [t \in {"t1"} |->
          [id |-> "t1", name |-> "n2",
           steps |-> <<[id |-> "s1", threadId |-> "t1", output |-> "x"]>>]] }

\* batches of up to MaxTasks calls, the same call possibly several times
TaskLists ==
    { tasks \in UNION { [1..n -> 1..Len(Requests)] : n \in 1..MaxTasks } :
        \A i \in 1..(Len(tasks) - 1) : tasks[i] <= tasks[i + 1] }

\* the stores one call can leave, run alone on the store d
CallResults(d, req) ==
    IF req.op = "create_step" THEN {create_step(d, req.step_dict)}
    ELSE IF req.op = "update_step" THEN {update_step(d, req.step_dict)}
    ELSE IF req.op = "update_thread"
         THEN {update_thread(d, req.thread_id, req.name, req.user_id)}
    ELSE IF req.op = "delete_thread" THEN {delete_thread(d, req.thread_id)}
    ELSE IF ThreadsWithStep(d, req.step_id) = {} THEN {d}
    ELSE { delete_step(d, thread_id, req.step_id) :
             thread_id \in ThreadsWithStep(d, req.step_id) }

\* _write_json and os.remove act on single files: of the result computed
\* from the files as read, the files that differ from what was read are
\* written, the files that are gone are removed, every other file is left
\* as it is on disk
Commit(d, seen, after) ==
    LET changed == { t \in DOMAIN after :
                       t \notin DOMAIN seen \/ after[t] # seen[t] }
        removed == DOMAIN seen \ DOMAIN after
    IN  [t \in ((DOMAIN d) \ removed) \cup changed |->
            IF t \in changed THEN after[t] ELSE d[t]]

\* mutant: the critical sections are entered without the lock
MayEnter_unlocked(inside) == TRUE

\* async with _lock: one coroutine at a time
MayEnter(inside) == inside = {}

\* the coroutines inside their critical section
Inside == { i \in DOMAIN call.phase : call.phase[i] = "inside" }

\* asyncio.gather of a batch of calls
ConcSubmit ==
    /\ call = NoCall
    /\ \E start \in StartFiles, tasks \in TaskLists :
         /\ disk' = start
         /\ call' = [op |-> "gather", start |-> start,
                     tasks |-> [i \in DOMAIN tasks |-> Requests[tasks[i]]],
                     phase |-> [i \in DOMAIN tasks |-> "waiting"],
                     seen |-> [i \in DOMAIN tasks |-> NoFiles],
                     order |-> << >>]
    /\ StoreFrame

\* a coroutine takes the lock and reads
ConcEnter ==
    /\ call.op = "gather"
    /\ \E i \in DOMAIN call.tasks :
         /\ call.phase[i] = "waiting"
         /\ MayEnter(Inside)
         /\ call' = [call EXCEPT !.phase[i] = "inside", !.seen[i] = disk]
    /\ UNCHANGED disk
    /\ StoreFrame

\* the coroutine writes and leaves the with block
ConcLeave ==
    /\ call.op = "gather"
    /\ \E i \in DOMAIN call.tasks :
         /\ call.phase[i] = "inside"
         /\ \E after \in CallResults(call.seen[i], call.tasks[i]) :
               disk' = Commit(disk, call.seen[i], after)
         /\ call' = [call EXCEPT !.phase[i] = "done",
                                 !.order = Append(@, i)]
    /\ StoreFrame

ConcNext ==
    \/ ConcSubmit
    \/ ConcEnter
    \/ ConcLeave

ConcSpec == StoreInit /\ [][ConcNext]_vars

\* ------------------------------------------- data layer: list_threads
MaxFirst == 2

PageThreadIds == {"t1", "t2", "t3"}

\* what a thread file holds besides id and steps; createdAt is a number here
\* (the ISO strings of _now_iso compare as their instants do), a file written
\* by another tool may lack createdAt or name
Profiles ==
    { [createdAt |-> 1, userId |-> "u1", name |-> <<"A", "b">>],
      [createdAt |-> 2, userId |-> "u1", name |-> <<"b">>],
      [createdAt |-> 2, userId |-> "u2", name |-> <<"A", "b">>],
      [createdAt |-> 1, userId |-> "u2"],
      [createdAt |-> 2, userId |-> "u1"],
      [userId |-> "u1", name |-> <<"b">>] }

\* the stores list_threads is called on
PageStores ==
    UNION { [ids -> Profiles] : ids \in SUBSET PageThreadIds }

\* the thread dict of a file
PageThread(d, t) == Merge([id |-> t, steps |-> << >>], d[t])

\* the orders os.listdir can give the files in
Listings ==
    { l \in [1..Cardinality(PageThreadIds) -> PageThreadIds] :
        \A i, j \in DOMAIN l : i # j => l[i] # l[j] }

\* the filters the callers pass: (userId, search)
PageFilters ==
    { <<NoneArg, NoneArg>>, <<"u1", NoneArg>>,
      <<NoneArg, <<"a">>>>, <<"u1", <<"B">>>> }

\* str.lower on the letters used here
Lower(str) ==
    [i \in DOMAIN str |-> IF str[i] = "A" THEN "a"
                          ELSE IF str[i] = "B" THEN "b" ELSE str[i]]

\* the in operator on strings
Contains(sub, str) ==
    \E i \in 1..(Len(str) - Len(sub) + 1) :
        SubSeq(str, i, i + Len(sub) - 1) = sub

\* the two filters of the collecting loop
Matches(thread, userId, search) ==
    /\ userId = NoneArg \/ Get(thread, "userId", NoneArg) = userId
    /\ search = NoneArg
          \/ Contains(Lower(search), Lower(Get(thread, "name", << >>)))

\* threads.sort(key=createdAt, reverse=True): stable, so threads with equal
\* keys keep the order they were collected in
SortNewestFirst(threads) ==
    LET key(i) == Get(threads[i], "createdAt", 0)
        rank(i) == Cardinality({ j \in DOMAIN threads :
                                   \/ key(j) > key(i)
                                   \/ key(j) = key(i) /\ j < i }) + 1
    IN  [k \in DOMAIN threads |->
            threads[CHOOSE i \in DOMAIN threads : rank(i) = k]]

\* mutant: the page starts at the cursor's thread
PageStart_at_cursor(threads, cursor) ==
    LET found == { i \in DOMAIN threads : threads[i].id = cursor }
    IN  IF cursor = NoneArg \/ found = {} THEN 0
        ELSE (CHOOSE i \in found : \A j \in found : i <= j) - 1

\* the index the page starts at: just after the first thread with the
\* cursor's id, 0 without a cursor or when no thread has it
PageStart(threads, cursor) ==
    LET found == { i \in DOMAIN threads : threads[i].id = cursor }
    IN  IF cursor = NoneArg \/ found = {} THEN 0
        ELSE CHOOSE i \in found : \A j \in found : i <= j

\* list_threads as a whole: collect in directory order, filter, sort, page
list_threads_page(d, listing, first, cursor, userId, search) ==
    LET files == SelectSeq(listing, LAMBDA t : t \in DOMAIN d)
        collected ==
            SelectSeq([i \in DOMAIN files |->
                         WithUserIdentifier(PageThread(d, files[i]))],
                      LAMBDA thread : Matches(thread, userId, search))
        threads == SortNewestFirst(collected)
        start == PageStart(threads, cursor)
        stop == IF start + first < Len(threads) THEN start + first
                ELSE Len(threads)
        page == SubSeq(threads, start + 1, stop)
    IN  [data |-> page,
         pageInfo |->
            [hasNextPage |-> (start + first) < Len(threads),
             startCursor |-> IF page # << >> THEN page[1].id ELSE NoneArg,
             endCursor |-> IF page # << >> THEN page[Len(page)].id
                           ELSE NoneArg]]

\* a client asks for a page, from the top or from any cursor
PageOpen ==
    /\ call = NoCall
    /\ \E d \in PageStores, listing \in Listings, first \in 1..MaxFirst,
          cursor \in PageThreadIds \cup {NoneArg}, f \in PageFilters :
         LET response == list_threads_page(d, listing, first, cursor,
                                           f[1], f[2])
         IN  /\ disk' = d
             /\ call' = [op |-> "list_threads", listing |-> listing,
                         first |-> first, cursor |-> cursor,
                         userId |-> f[1], search |-> f[2],
                         fromTop |-> cursor = NoneArg,
                         response |-> response,
                         visited |-> [i \in DOMAIN response.data |->
                                         response.data[i].id]]
    /\ StoreFrame

\* the client follows endCursor; the store has not changed
PageFollow ==
    /\ call.op = "list_threads"
    /\ call.response.pageInfo.hasNextPage
    /\ LET cursor == call.response.pageInfo.endCursor
           response == list_threads_page(disk, call.listing, call.first,
                                         cursor, call.userId, call.search)
       IN  call' = [call EXCEPT
                      !.cursor = cursor,
                      !.response = response,
                      !.visited = @ \o [i \in DOMAIN response.data |->
                                           response.data[i].id]]
    /\ UNCHANGED disk
    /\ StoreFrame

PageNext ==
    \/ PageOpen
    \/ PageFollow

PageSpec == StoreInit /\ [][PageNext]_vars

\* ------------------------------------------------------- search helper
\* the search provider's answer to one query: the call raises, or it
\* returns a number of results
Outcomes ==
    {[raises |-> TRUE, hits |-> 0]}
        \cup { [raises |-> FALSE, hits |-> h] : h \in 0..MaxHits }

\* the formatted block of the n-th result of a query
ResultBlock(q, n) == [kind |-> "result", query |-> q, n |-> n]
\* the "[Search failed for 'q': ...]" annotation
FailedBlock(q) == [kind |-> "failed", query |-> q, n |-> 0]
\* the text returned when the list of blocks is empty
NoResultsFound == <<[kind |-> "none", query |-> "", n |-> 0]>>

\* the blocks one query adds to results: its results when the search call
\* returns, the annotation when it raises
QueryBlocks(q, o) ==
    IF o.raises THEN <<FailedBlock(q)>>
    ELSE IF o.hits = 0 THEN << >>
    ELSE [n \in 1..o.hits |-> ResultBlock(q, n)]

\* the loop with no try around the search call: the first query that
\* raises ends the function
RECURSIVE SearchLoop_unguarded(_, _)
SearchLoop_unguarded(queries, outcomes) ==
    IF queries = << >> THEN [raised |-> "none", results |-> << >>]
    ELSE IF Head(outcomes).raises
         THEN [raised |-> "Exception", results |-> << >>]
    ELSE LET rest == SearchLoop_unguarded(Tail(queries), Tail(outcomes))
         IN  [raised |-> rest.raised,
              results |-> IF rest.raised = "none"
                          THEN QueryBlocks(Head(queries), Head(outcomes))
                                   \o rest.results
                          ELSE << >>]

\* the loop over the queries, each search call in its own try
RECURSIVE SearchLoop(_, _)
SearchLoop(queries, outcomes) ==
    IF queries = << >> THEN [raised |-> "none", results |-> << >>]
    ELSE [raised |-> "none",
          results |-> QueryBlocks(Head(queries), Head(outcomes))
                          \o SearchLoop(Tail(queries), Tail(outcomes)).results]

\* _search_tavily: the client is built first, outside the try, and
\* _get_tavily_client raises ValueError when TAVILY_API_KEY is not set; the
\* returned text is the blocks joined by the separator, in order
search_tavily(key, queries, outcomes) ==
    IF ~key THEN [raised |-> "ValueError", text |-> << >>]
    ELSE LET loop == SearchLoop(queries, outcomes)
         IN  [raised |-> loop.raised,
              text |-> IF loop.raised # "none" THEN << >>
                       ELSE IF loop.results = << >> THEN NoResultsFound
                       ELSE loop.results]

\* lists of at most n search queries
QueryLists(n) == UNION { [1..k -> SearchQueries] : k \in 0..n }

\* one call of _search_tavily, on any list of queries, with any answer of
\* the provider to each, with or without the API key in the environment
SearchTavily ==
    /\ call = NoCall
    /\ \E key \in BOOLEAN, queries \in QueryLists(MaxQueries) :
         \E outcomes \in [1..Len(queries) -> Outcomes] :
            call' = [op |-> "_search_tavily", key |-> key, queries |-> queries,
                     outcomes |-> outcomes,
                     result |-> search_tavily(key, queries, outcomes)]
    /\ UNCHANGED <<MAX_ITERATIONS, ran, shown, other, disk, values, next,
                   awaiting_planner_answers, is_processing, intent, actions,
                   pc, run, second, path, scores, pre, preNext, asNode, msg,
                   written, outcome, runFailed, failures, typed, feedbackUses>>

\* no call has been made; the iteration cap plays no part here
SearchInit == Init /\ MAX_ITERATIONS = 1

SearchSpec == SearchInit /\ [][SearchTavily]_vars

\* ------------------------------------------------------------ the claims
revision_count == Get(values, "revision_count", 0)
score == Get(values, "score", 0)
questions_for_user == Get(values, "questions_for_user", << >>)
Range(s) == { s[i] : i \in 1..Len(s) }
EvaluatorRan == path' = Append(path, "evaluator")
FreshStart == pc = "idle" /\ pc' = "stream" /\ next = {}

\* C1: an engine call that enters the writer/evaluator loop completes at
\* most MAX_ITERATIONS evaluator passes: the count never exceeds the cap and
\* after the pass that reaches it the pending node is output, whatever the
\* score.
C1_Termination ==
    /\ Count(path, "evaluator") <= MAX_ITERATIONS
    /\ Count(path, "writer") <= MAX_ITERATIONS
    /\ ( /\ path # << >>
         /\ Last(path) = "evaluator"
         /\ Count(path, "evaluator") = MAX_ITERATIONS ) => next = {"output"}

C1_Witness ==
    /\ MAX_ITERATIONS >= 2
    /\ path # << >>
    /\ Last(path) = "output"
    /\ Count(path, "evaluator") = MAX_ITERATIONS
    /\ score < QUALITY_THRESHOLD

\* C2: route_evaluator returns "output" exactly when score >= the threshold
\* or revision_count >= the cap, and "writer" otherwise, a missing score
\* counting as 0 and a missing revision_count as 0.
C2_RouteEvaluator ==
    path = <<"evaluator">> =>
        LET s == IF "score" \in DOMAIN values THEN values["score"] ELSE 0
            r == IF "revision_count" \in DOMAIN values
                 THEN values["revision_count"] ELSE 0
        IN /\ (s >= 7 \/ r >= MAX_ITERATIONS) => next = {"output"}
           /\ (s < 7 /\ r < MAX_ITERATIONS) => next = {"writer"}

C2_Witness ==
    /\ path = <<"evaluator">>
    /\ "score" \notin DOMAIN values
    /\ "revision_count" \notin DOMAIN values
    /\ next = {"writer"}

\* C3 as stated: over the whole thread revision_count never decreases, grows
\* by one on each evaluator execution and is changed by nothing else.
C3_Original ==
    [][ /\ revision_count' >= revision_count
        /\ EvaluatorRan => revision_count' = revision_count + 1
        /\ revision_count' # revision_count => EvaluatorRan ]_vars

\* C3 amended: revision_count is a non-negative integer that grows by one on
\* each evaluator execution; the only other step that changes it is the
\* fresh start of a run, which sets it to 0.
C3_Amended ==
    [][ /\ revision_count' >= 0
        /\ EvaluatorRan => revision_count' = revision_count + 1
        /\ revision_count' # revision_count =>
              \/ EvaluatorRan
              \/ FreshStart /\ revision_count' = 0 ]_vars

C3_Witness ==
    /\ path # << >>
    /\ Last(path) = "evaluator"
    /\ revision_count = 2
    /\ pc = "stream"

\* C4: in a run without stage failures the k-th evaluator pass leaves
\* revision_count = k after exactly k writer and k evaluator executions, all
\* earlier passes having scored below the threshold; the run is routed to
\* output on the first pass that meets the threshold, or on pass
\* MAX_ITERATIONS whatever its score, and to writer otherwise.
C4_LoopOutcome ==
    (~runFailed /\ path # << >> /\ Last(path) \in {"evaluator", "output"}) =>
        LET k == Len(scores)
        IN /\ k >= 1
           /\ k <= MAX_ITERATIONS
           /\ revision_count = k
           /\ Count(path, "writer") = k
           /\ Count(path, "evaluator") = k
           /\ \A i \in 1..(k - 1) : scores[i] < QUALITY_THRESHOLD
           /\ IF scores[k] >= QUALITY_THRESHOLD \/ k = MAX_ITERATIONS
              THEN next = (IF Last(path) = "output" THEN {} ELSE {"output"})
              ELSE Last(path) = "evaluator" /\ next = {"writer"}

C4_Witness ==
    /\ ~runFailed
    /\ path # << >>
    /\ Last(path) = "output"
    /\ Len(scores) = 2
    /\ scores[1] < QUALITY_THRESHOLD
    /\ scores[2] >= QUALITY_THRESHOLD
    /\ revision_count = 2

\* C5: after planner, non-empty questions lead to ask_user and the call
\* ends there with researcher pending and not executed; empty questions
\* lead straight to researcher and ask_user is not visited.
C5_InterruptGating ==
    /\ (path # << >> /\ path[1] = "planner") =>
          IF questions_for_user # << >>
          THEN /\ Len(path) <= 2
               /\ Len(path) = 1 => (pc = "stream" /\ next = {"ask_user"})
               /\ Len(path) = 2 =>
                     (path[2] = "ask_user" /\ pc = "post" /\ next = {"researcher"})
          ELSE /\ "ask_user" \notin Range(path)
               /\ Len(path) = 1 => next = {"researcher"}
               /\ Len(path) >= 2 => path[2] = "researcher"
    /\ "ask_user" \in Range(path) => questions_for_user # << >>

C5_Witness ==
    /\ path = <<"planner", "ask_user">>
    /\ pc = "post"
    /\ next = {"researcher"}
    /\ questions_for_user = <<"q1">>

\* C6: when ask_user or researcher completes, the engine call ends at once:
\* the checkpoint's pending set is the node's successor (researcher after
\* ask_user, writer after researcher) and no stage follows it in the call.
C6_SuspendAfter ==
    /\ \A i \in 1..Len(path) :
          path[i] \in {"ask_user", "researcher"} => i = Len(path)
    /\ (path # << >> /\ Last(path) = "ask_user") =>
          (pc = "post" /\ next = {"researcher"})
    /\ (path # << >> /\ Last(path) = "researcher") =>
          (pc = "post" /\ next = {"writer"})

C6_Witness ==
    /\ pc = "post"
    /\ path = <<"planner", "researcher">>
    /\ next = {"writer"}

\* C7: an engine call that returns without a stage error and with a pending
\* node has completed ask_user or researcher last; while a call is still
\* running after planner, writer, evaluator or output it has not returned.
C7_SuspendOnlyAtBoundaries ==
    /\ (pc = "post" /\ next # {}) =>
          (path # << >> /\ Last(path) \in {"ask_user", "researcher"})
    /\ (pc = "post" /\ (path = << >> \/ Last(path) \notin {"ask_user", "researcher"})) =>
          (next = {} /\ path # << >> /\ Last(path) = "output")

C7_Witness ==
    /\ pc = "post"
    /\ next # {}
    /\ Last(path) = "ask_user"
    /\ awaiting_planner_answers

\* C8 as stated: the Proceed resume of a session suspended after researcher
\* or ask_user continues from that node's successor with the checkpointed
\* state record unchanged.
C8_Original ==
    ( /\ pc = "stream"
      /\ path = << >>
      /\ msg = "proceed"
      /\ outcome \in {"researcher", "ask_user"} ) =>
        /\ next = (IF outcome = "researcher" THEN {"writer"} ELSE {"researcher"})
        /\ values = pre

\* C8 amended: the Proceed resume of a session suspended after researcher
\* continues from writer with every field of the checkpointed state record
\* unchanged except user_feedback, which it sets to the empty string.
C8_Amended ==
    ( /\ pc = "stream"
      /\ path = << >>
      /\ msg = "proceed"
      /\ outcome = "researcher" ) =>
        /\ next = {"writer"}
        /\ DOMAIN values = DOMAIN pre
        /\ \A k \in DOMAIN pre \ {"user_feedback"} : values[k] = pre[k]
        /\ values["user_feedback"] = ""

C8_Witness ==
    /\ pc = "stream"
    /\ path = <<"writer">>
    /\ msg = "proceed"
    /\ outcome = "researcher"
    /\ pre["user_feedback"] = "a"
    /\ values["user_feedback"] = ""

C10_Attribution ==
    ( /\ pc = "stream"
      /\ path = << >>
      /\ outcome \in {"ask_user", "researcher"} ) =>
        /\ outcome = "ask_user" => asNode = "ask_user"
        /\ asNode = "researcher" => outcome = "researcher"

\* C11: questions_for_user is empty whenever researcher, writer, evaluator
\* or output is about to execute, and the only call of main that empties a
\* non-empty questions_for_user is the resume attributed to ask_user.
C11_QuestionsWindow ==
    /\ (pc = "stream" /\ next \cap {"researcher", "writer", "evaluator", "output"} # {}) =>
          questions_for_user = << >>
    /\ ( /\ pc = "stream"
         /\ path = << >>
         /\ Get(pre, "questions_for_user", << >>) # << >>
         /\ questions_for_user = << >> ) => asNode = "ask_user"

task == Get(values, "task", << >>)

\* C12 as stated: task is set by the fresh start of a run and changed by no
\* later stage execution, resume or patch.
C12_Original ==
    [][ task' # task => FreshStart ]_vars

\* C12 amended: task is set by the fresh start of a run to the user's
\* request; afterwards the only step that changes it is the resume that
\* answers the planner's questions, which appends the answer to it; no stage
\* execution and no other resume changes it.
C12_Amended ==
    [][ task' # task =>
          \/ FreshStart /\ task' = <<msg'>>
          \/ /\ pc = "idle"
             /\ pc' = "stream"
             /\ asNode' = "ask_user"
             /\ task' = Append(task, msg') ]_vars

C12_Witness ==
    /\ pc = "stream"
    /\ path = << >>
    /\ asNode = "ask_user"
    /\ Len(task) = 2
    /\ Len(pre["task"]) = 1

user_feedback == Get(values, "user_feedback", "")

\* C13 as stated: a user_feedback text is put into the prompt of at most one
\* stage execution after the resume that supplied it.
C13_Original ==
    feedbackUses <= 1

\* C13 amended: no stage clears user_feedback, it changes only when main
\* patches it or supplies it as fresh input; a non-empty text is put into the
\* prompt of every writer execution that follows, the second and later
\* passes of the revision loop included, and of researcher when it has a plan.
C13_Amended ==
    [][ /\ user_feedback' # user_feedback => (pc = "idle" /\ pc' = "stream")
        /\ ( /\ path' = Append(path, "writer")
             /\ user_feedback # "" ) => feedbackUses' = feedbackUses + 1
        /\ ( /\ path' = Append(path, "researcher")
             /\ user_feedback # ""
             /\ Get(values, "plan", "") # "" ) => feedbackUses' = feedbackUses + 1 ]_vars

C13_Witness ==
    /\ Count(path, "writer") = 2
    /\ Last(path) = "writer"
    /\ user_feedback = "a"
    /\ feedbackUses = 2

\* C14: the call of main that follows a stage failure starts its engine run
\* with the pending node and the state record the failure left in the
\* checkpoint, so that the failed stage is the first one to execute again.
C14_FailedStageRetried ==
    ( /\ pc = "stream"
      /\ path = << >>
      /\ outcome = "error" ) =>
        /\ next = preNext
        /\ values = pre

dimension_scores == Get(values, "dimension_scores", EmptyState)

\* C18: whenever the record holds a score and the five dimension scores, the
\* score is their arithmetic mean (five times the score is their sum).
C18_ScoreIsMean ==
    ("score" \in DOMAIN values /\ dimension_scores # EmptyState) =>
        5 * score = dimension_scores["Clarity"] + dimension_scores["Persuasiveness"]
                    + dimension_scores["Completeness"] + dimension_scores["Structure"]
                    + dimension_scores["Specificity"]

\* C19: score and every dimension score lie in 0..10, and dimension_scores
\* is either empty or has exactly the five dimension names as keys.
C19_ScoreRanges ==
    /\ score >= 0
    /\ score <= 10
    /\ \/ dimension_scores = EmptyState
       \/ /\ DOMAIN dimension_scores = SCORE_DIMENSIONS
          /\ \A d \in SCORE_DIMENSIONS :
                dimension_scores[d] >= 0 /\ dimension_scores[d] <= 10

InputKeys ==
    {"task", "revision_count", "score", "user_feedback", "search_queries",
     "dimension_scores", "questions_for_user"}

\* C16 as stated: main starts a fresh run, with planner pending and the state
\* record equal to the supplied initial values, exactly when the checkpoint
\* it read had no pending node, and resumes otherwise; a resume is never
\* made on a thread without a checkpoint.
C16_Original ==
    (pc = "stream" /\ path = << >>) =>
        IF preNext = {}
        THEN /\ asNode = "none"
             /\ next = {"planner"}
             /\ values = FreshInputs(msg)
        ELSE /\ asNode \in Nodes
             /\ next # {}
             /\ pre # EmptyState

\* C16 amended: as C16, but the state record of a fresh run is the
\* checkpointed record with the supplied initial values written over it:
\* the fields the input does not name keep the values of the previous run.
C16_Amended ==
    (pc = "stream" /\ path = << >>) =>
        IF preNext = {}
        THEN /\ asNode = "none"
             /\ next = {"planner"}
             /\ DOMAIN values = DOMAIN pre \cup InputKeys
             /\ values["task"] = <<msg>>
             /\ values["revision_count"] = 0
             /\ values["score"] = 0
             /\ values["user_feedback"] = ""
             /\ values["search_queries"] = << >>
             /\ values["dimension_scores"] = EmptyState
             /\ values["questions_for_user"] = << >>
             /\ \A k \in DOMAIN pre \ InputKeys : values[k] = pre[k]
        ELSE /\ asNode \in Nodes
             /\ next # {}
             /\ pre # EmptyState

C16_Witness ==
    /\ pc = "stream"
    /\ path = << >>
    /\ preNext = {}
    /\ asNode = "none"
    /\ Get(pre, "revision_count", 0) = 2
    /\ revision_count = 0
    /\ Get(values, "draft", "") = "draft"

\* C17: output is the last stage of the engine call that executes it and is
\* executed once in it; when it completes the call ends with nothing pending
\* and the state record as output found it, and nothing is pending after
\* main has returned, so that no stage follows output in the run.
C17_OutputTerminal ==
    /\ \A i \in 1..Len(path) : path[i] = "output" => i = Len(path)
    /\ (path # << >> /\ Last(path) = "output") =>
          /\ pc = "post"
          /\ next = {}
          /\ written = {}
          /\ outcome = "completed"
    /\ (pc = "idle" /\ outcome = "completed") => next = {}

C17_Witness ==
    /\ path = <<"writer", "evaluator", "output">>
    /\ pc = "post"
    /\ next = {}

\* the stage-output fields and the stage each belongs to
OwnedFields(node) ==
    CASE node = "planner"    -> {"plan", "proposal_type"}
      [] node = "researcher" -> {"research_data", "search_queries"}
      [] node = "writer"     -> {"draft"}
      [] node = "evaluator"  -> {"critique", "score", "dimension_scores",
                                 "revision_count"}
      [] OTHER               -> {}

StageOutputFields == UNION { OwnedFields(node) : node \in Nodes }

\* C20: the partial update a stage returns contains no stage-output field
\* of another stage: plan and proposal_type come from planner only,
\* research_data and search_queries from researcher only, draft from writer
\* only, critique, score, dimension_scores and revision_count from evaluator
\* only.
C20_FieldOwnership ==
    path # << >> =>
        written \cap StageOutputFields \subseteq OwnedFields(Last(path))

C20_Witness ==
    /\ path # << >>
    /\ Last(path) = "evaluator"
    /\ written = {"critique", "score", "dimension_scores", "revision_count"}

\* C15: at no time are two engine runs in flight on the thread: while the
\* engine run of one connection is streaming, no other connection's is.
C15_OneRunPerThread ==
    ~(pc = "stream" /\ second.pc = "stream")

\* the queries whose search call raised, in query order
RaisingQueries ==
    LET idx == SelectSeq([i \in 1..Len(call.queries) |-> i],
                         LAMBDA i : call.outcomes[i].raises)
    IN  [k \in 1..Len(idx) |-> call.queries[idx[k]]]
\* the queries the returned text carries a "Search failed" annotation for
AnnotatedQueries ==
    LET failed == SelectSeq(call.result.text, LAMBDA b : b.kind = "failed")
    IN  [k \in 1..Len(failed) |-> failed[k].query]
\* the helper returned, one annotation per failed query in query order, next
\* to every result of every query that did not fail
FailuresAbsorbed ==
    /\ call.result.raised = "none"
    /\ AnnotatedQueries = RaisingQueries
    /\ \A i \in 1..Len(call.queries) :
          ~call.outcomes[i].raises =>
              \A n \in 1..call.outcomes[i].hits :
                  ResultBlock(call.queries[i], n) \in Range(call.result.text)

\* C27 as written: for every list of queries and every subset of them whose
\* search call raises, _search_tavily returns normally with one "Search
\* failed" annotation per failed query, in query order, alongside the results
\* of the successful queries
C27_Original ==
    call.op = "_search_tavily" => FailuresAbsorbed

\* C27 as amended: the same whenever the client could be built; with no
\* TAVILY_API_KEY in the environment _search_tavily raises ValueError before
\* it searches any query
C27_Amended ==
    call.op = "_search_tavily" =>
        /\ call.key => FailuresAbsorbed
        /\ ~call.key => call.result.raised = "ValueError"

\* a call whose first and last query fail and whose second returns a result
C27_Witness ==
    /\ call.op = "_search_tavily"
    /\ call.key
    /\ Len(call.queries) = 3
    /\ call.queries[1] # call.queries[3]
    /\ call.outcomes[1].raises
    /\ call.outcomes[2] = [raises |-> FALSE, hits |-> 1]
    /\ call.outcomes[3].raises
    /\ Len(call.result.text) = 3

\* the name and the user id most recently supplied to update_thread for the
\* thread of the last call: the argument when it was not None, otherwise
\* what the thread file held before
KeptOrSupplied(key, arg) ==
    IF arg # NoneArg THEN arg
    ELSE Get(ReadThread(call.before, call.thread_id), key, NoneArg)

\* C29: update_thread on an unknown id creates the thread; after each
\* update_thread, get_thread returns that id with the supplied name and user
\* id (as userId and userIdentifier), a None argument keeps the previous
\* value, and the steps are unchanged; after delete_thread, get_thread returns
\* None and list_threads no longer contains the thread; no call touches
\* another thread
C29_ThreadRoundTrip ==
    /\ call.op = "update_thread" =>
         LET got == get_thread(disk, call.thread_id)
         IN  /\ got # NoThread
             /\ got.id = call.thread_id
             /\ Get(got, "name", NoneArg) = KeptOrSupplied("name", call.name)
             /\ Get(got, "userId", NoneArg)
                    = KeptOrSupplied("userId", call.user_id)
             /\ Get(got, "userIdentifier", NoneArg)
                    = KeptOrSupplied("userId", call.user_id)
             /\ got.steps = ReadThread(call.before, call.thread_id).steps
             /\ \A t \in ThreadIds \ {call.thread_id} :
                    get_thread(disk, t) = get_thread(call.before, t)
    /\ call.op = "delete_thread" =>
         /\ get_thread(disk, call.thread_id) = NoThread
         /\ \A u \in UserIds \cup {NoneArg} :
               \A listed \in list_threads(disk, u) :
                   listed.id # call.thread_id
         /\ \A t \in ThreadIds \ {call.thread_id} :
                get_thread(disk, t) = get_thread(call.before, t)

\* update_thread with a None name on a named thread that has a step, and
\* delete_thread of a thread that was listed
C29_Witness ==
    /\ call.op = "update_thread"
    /\ call.name = NoneArg
    /\ call.user_id # NoneArg
    /\ call.thread_id \in DOMAIN call.before
    /\ "name" \in DOMAIN call.before[call.thread_id]
    /\ Get(call.before[call.thread_id], "userId", NoneArg)
           \notin {NoneArg, call.user_id}
    /\ Len(call.before[call.thread_id].steps) = 1

C29_WitnessDelete ==
    /\ call.op = "delete_thread"
    /\ call.thread_id \in DOMAIN call.before
    /\ DOMAIN disk # {}

\* the steps a thread file holds, none when the file is missing
StepsOf(d, thread_id) ==
    IF thread_id \in DOMAIN d THEN d[thread_id].steps ELSE << >>

\* C30: create_step appends the step to its thread's list, creating the thread
\* if it is missing; update_step replaces only the step with the same id and
\* keeps the number and order of the steps; delete_step removes the step with
\* that id; every other step of every thread is unchanged by each of them, and
\* update_step on a thread that does not exist creates nothing
C30_StepStore ==
    /\ call.op = "create_step" /\ call.step_dict.threadId # NoneArg =>
         /\ call.step_dict.threadId \in DOMAIN disk
         /\ StepsOf(disk, call.step_dict.threadId)
                = Append(StepsOf(call.before, call.step_dict.threadId),
                         call.step_dict)
         /\ \A t \in ThreadIds \ {call.step_dict.threadId} :
                get_thread(disk, t) = get_thread(call.before, t)
    /\ call.op = "update_step" =>
         /\ DOMAIN disk = DOMAIN call.before
         /\ \A t \in ThreadIds :
              /\ Len(StepsOf(disk, t)) = Len(StepsOf(call.before, t))
              /\ \A i \in 1..Len(StepsOf(disk, t)) :
                    StepsOf(disk, t)[i] =
                        IF /\ t = call.step_dict.threadId
                           /\ StepsOf(call.before, t)[i].id = call.step_dict.id
                        THEN call.step_dict
                        ELSE StepsOf(call.before, t)[i]
    /\ call.op = "delete_step" =>
         /\ DOMAIN disk = DOMAIN call.before
         /\ \A t \in ThreadIds :
               StepsOf(disk, t)
                   = SelectSeq(StepsOf(call.before, t),
                               LAMBDA st : st.id # call.step_id)

\* update_step has replaced the second of two steps of a thread by a step
\* with another output
C30_Witness ==
    /\ call.op = "update_step"
    /\ call.step_dict.threadId \in DOMAIN call.before
    /\ Len(StepsOf(call.before, call.step_dict.threadId)) = 2
    /\ StepsOf(call.before, call.step_dict.threadId)[2].id = call.step_dict.id
    /\ StepsOf(call.before, call.step_dict.threadId)[2] # call.step_dict
    /\ StepsOf(disk, call.step_dict.threadId)[2] = call.step_dict

\* delete_step has removed the first of two steps of a thread
C30_WitnessDelete ==
    /\ call.op = "delete_step"
    /\ \E t \in DOMAIN call.before :
          /\ Len(call.before[t].steps) = 2
          /\ call.before[t].steps[1].id = call.step_id
          /\ disk[t].steps = <<call.before[t].steps[2]>>

\* update_step named a thread that has no file
C30_WitnessMissing ==
    /\ call.op = "update_step"
    /\ call.step_dict.threadId \in ThreadIds \ DOMAIN call.before
    /\ DOMAIN call.before # {}

\* history logs a state record can carry in place of its own
Logs ==
    {<< >>,
     <<[HumanMessage("a") EXCEPT !.id = 1]>>,
     <<[HumanMessage("b") EXCEPT !.id = 1], [AIMessage("plan") EXCEPT !.id = 2]>>}

\* C21: routing never reads the history log: a state record and the same
\* record with any other messages list get the same target from
\* route_after_planner and the same target from route_evaluator
C21_RoutingIgnoresLog ==
    \A log \in Logs :
        LET twin == Merge(values, [messages |-> log])
        IN  /\ route_after_planner(twin) = route_after_planner(values)
            /\ route_evaluator(twin) = route_evaluator(values)

\* both routers have routed a record whose log differs from every twin's:
\* planner to ask_user, later evaluator back to writer
C21_Witness ==
    /\ call.op = "stage"
    /\ call.node = "evaluator"
    /\ next = {"writer"}
    /\ "ask_user" \in Range(path)
    /\ values.messages \notin Logs

\* the contents of a history log, in order
LogContents(log) == [i \in 1..Len(log) |-> log[i].content]

\* C22: the history log is append-only and insertion-ordered: across every
\* stage execution, fresh input and resume patch the old list is a prefix of
\* the new one; a completion of planner, researcher, writer, evaluator or
\* output appends exactly one entry, its own, at the end; ask_user and a
\* resume patch append none
C22_AppendOnly ==
    [][ LET old == values.messages
            new == values'.messages
        IN  /\ Len(old) <= Len(new)
            /\ SubSeq(new, 1, Len(old)) = old
            /\ \A node \in Nodes :
                  path' = Append(path, node) =>
                      /\ new = old \o SubSeq(new, Len(old) + 1, Len(new))
                      /\ Len(new) = Len(old) + (IF node = "ask_user" THEN 0 ELSE 1)
                      /\ node # "ask_user" =>
                            new[Len(new)].content
                                = StageMessages(node, values)[1].content
            /\ call'.op = "patch" => new = old
            /\ \A i, j \in 1..Len(new) : i # j => new[i].id # new[j].id
      ]_vars

\* a run that was suspended after ask_user and after researcher, and resumed
\* both times, has logged its five entries in execution order
C22_Witness ==
    /\ Len(values.messages) = 5
    /\ LogContents(values.messages)
           = <<"plan", "brief", "Draft created", "Evaluated draft",
               "Saved proposal">>
    /\ path = <<"planner", "ask_user", "researcher", "writer", "evaluator",
                "output">>

\* C23: for every state each router returns exactly one name of its declared
\* target set, route_after_planner "ask_user" or "researcher" and
\* route_evaluator "output" or "writer"; after planner or evaluator has
\* completed, the pending set is one declared target, so no run proceeds to
\* an undeclared node
C23_DeclaredTargets ==
    /\ route_after_planner(values) \in DeclaredNames("planner")
    /\ route_evaluator(values) \in DeclaredNames("evaluator")
    /\ DeclaredNames("planner") = {"ask_user", "researcher"}
    /\ DeclaredNames("evaluator") = {"output", "writer"}
    /\ call.op = "stage" /\ call.node \in {"planner", "evaluator"} =>
          /\ Cardinality(next) = 1
          /\ next \subseteq ConditionalTargets(call.node)
          /\ next \subseteq Nodes

\* evaluator has routed a record with questions, a low score and the cap not
\* reached back to writer
C23_Witness ==
    /\ call.op = "stage"
    /\ call.node = "evaluator"
    /\ next = {"writer"}
    /\ Get(values, "questions_for_user", << >>) # << >>
    /\ values.revision_count < MAX_ITERATIONS

\* the nodes that can be reached from a set of nodes along the edges of the
\* graph in at most k steps without entering a node of avoid
RECURSIVE ReachFrom(_, _, _)
ReachFrom(from, avoid, k) ==
    IF k = 0 THEN from
    ELSE ReachFrom(from \cup { e[2] : e \in { x \in GraphEdges :
                                                x[1] \in from /\ x[2] \notin avoid } },
                   avoid, k - 1)

\* C26: the built graph is well formed: every unconditional edge and every
\* conditional target names a registered node (or START, END), the only
\* start node is planner, output is reachable from planner through ask_user
\* and also through researcher without ask_user, and every step the engine
\* takes follows an edge of the graph
C26_WellFormed ==
    /\ \A e \in UnconditionalEdges :
          e[1] \in Nodes \cup {START} /\ e[2] \in Nodes \cup {END}
    /\ \A node \in ConditionalSources :
          node \in Nodes /\ ConditionalTargets(node) \subseteq Nodes
    /\ { e[2] : e \in { x \in GraphEdges : x[1] = START } } = {"planner"}
    /\ <<"planner", "ask_user">> \in GraphEdges
    /\ "output" \in ReachFrom({"ask_user"}, {}, Cardinality(Nodes))
    /\ <<"planner", "researcher">> \in GraphEdges
    /\ "output" \in ReachFrom({"researcher"}, {"ask_user"}, Cardinality(Nodes))
    /\ <<"output", END>> \in GraphEdges
    /\ call.op = "stage" =>
          /\ \A target \in next : <<call.node, target>> \in GraphEdges
          /\ next = {} => <<call.node, END>> \in GraphEdges

\* a run has gone from planner through ask_user to output and ended
C26_Witness ==
    /\ path = <<"planner", "ask_user", "researcher", "writer", "evaluator",
                "output">>
    /\ call.node = "output"
    /\ next = {}

\* a run has gone from planner straight to researcher and on to output
C26_WitnessDirect ==
    /\ path = <<"planner", "researcher", "writer", "evaluator", "output">>
    /\ call.node = "output"
    /\ next = {}

\* C28: when the plan is empty or missing, researcher_node returns
\* research_data = "" and search_queries = [] with the single message "No
\* plan provided to research.", calls neither the language model nor the
\* search provider, and completes
C28_EmptyPlan ==
    call.op = "stage" /\ call.node = "researcher"
        /\ Get(call.before, "plan", "") = "" =>
            /\ values.research_data = ""
            /\ values.search_queries = << >>
            /\ Len(values.messages) = Len(call.before.messages) + 1
            /\ LogContents(values.messages)
                   = Append(LogContents(call.before.messages),
                            "No plan provided to research.")
            /\ call.calls = {}
            /\ path # << >> /\ Last(path) = "researcher"
            /\ next = {"writer"}

\* researcher has completed on a state record that has no plan field
C28_Witness ==
    /\ call.op = "stage"
    /\ call.node = "researcher"
    /\ "plan" \notin DOMAIN call.before
    /\ values.research_data = ""

\* researcher has completed on a state record whose plan is the empty string
C28_WitnessEmpty ==
    /\ call.op = "stage"
    /\ call.node = "researcher"
    /\ "plan" \in DOMAIN call.before
    /\ call.before.plan = ""
    /\ values.research_data = ""

\* C25: sessions are independent: a fresh run, a resume patch or a stage of
\* one session changes the checkpointed state and pending set of its own
\* thread id only; the checkpoint of every other thread id is unchanged, in
\* every interleaving of the two sessions
C25_SessionsIndependent ==
    [][ /\ call'.thread_id = Configurable(call'.session).thread_id
        /\ \A thread_id \in {"t1", "t2"} \ {call'.thread_id} :
               Checkpoint(thread_id)' = Checkpoint(thread_id)
      ]_vars

\* both threads hold a checkpoint, the two differ, and session B has just
\* completed a stage while A's thread is suspended or running
C25_Witness ==
    /\ call.op = "stage"
    /\ call.session = "B"
    /\ call.thread_id = "t2"
    /\ values # EmptyState
    /\ next # {}
    /\ other.values # EmptyState
    /\ other.next # next

\* C24 as written: threshold and cap are session-level configuration: when
\* the evaluator of a session has routed, the threshold and the cap it was
\* routed with are entries of that session's configuration
C24_Original ==
    call.op = "stage" /\ call.node = "evaluator" =>
        {"quality_threshold", "max_iterations"}
            \subseteq DOMAIN Configurable(call.session)

\* C24 as amended: threshold and cap are constants of the process: a
\* session's configuration holds its thread id and nothing else, no operation
\* of a session changes the cap, and whenever the evaluator of either session
\* completes, its thread is routed by its own score and revision count
\* against the one threshold and the one cap
C24_Amended ==
    [][ /\ MAX_ITERATIONS' = MAX_ITERATIONS
        /\ \A session \in Sessions :
              DOMAIN Configurable(session) = {"thread_id"}
        /\ call'.op = "stage" /\ call'.node = "evaluator" =>
              LET after == IF call'.thread_id = "t1"
                           THEN [values |-> values', next |-> next']
                           ELSE other'
              IN  after.next =
                     IF \/ after.values.score >= QUALITY_THRESHOLD
                        \/ after.values.revision_count >= MAX_ITERATIONS
                     THEN {"output"}
                     ELSE {"writer"}
      ]_vars

\* the evaluators of both sessions have completed; A's thread went back to
\* writer, B's on to output
C24_Witness ==
    /\ call.op = "stage"
    /\ call.node = "evaluator"
    /\ call.session = "B"
    /\ other.next = {"output"}
    /\ next = {"writer"}
    /\ "score" \in DOMAIN values

\* C31: in every run the stages execute in pipeline order: writer executes
\* only if researcher has completed earlier in the run, evaluator only
\* immediately after a writer execution, output only after an evaluator
\* execution of the run
C31_PipelineOrder ==
    [][ /\ path' = Append(path, "writer") => "researcher" \in ran
        /\ path' = Append(path, "evaluator") =>
              path # << >> /\ Last(path) = "writer"
        /\ path' = Append(path, "output") => "evaluator" \in ran
      ]_vars

\* the session is suspended after researcher and the re-research button has
\* been clicked
ReresearchArmed ==
    outcome = "researcher" /\ next = {"writer"} /\ intent = "reresearch"

\* C32: a typed resume with the re-research intent, made while the session is
\* suspended after researcher, stores the text in user_feedback and makes
\* researcher the pending stage; the next stage executed is researcher and
\* the engine suspends after it with pending {writer}
C32_ReresearchLoops ==
    [][ /\ ( /\ ReresearchArmed
             /\ pc = "idle" /\ pc' = "stream"
             /\ ~StartsWithProceeding(msg') )
           => /\ Get(values', "user_feedback", "") = msg'
              /\ next' = {"researcher"}
              /\ asNode' = "planner"
        /\ ( /\ asNode = "planner" /\ outcome = "researcher"
             /\ pc = "stream" /\ path = << >> /\ path' # << >> )
           => /\ path' = <<"researcher">>
              /\ next' = {"writer"}
              /\ pc' = "post"
      ]_vars

C32_Witness ==
    /\ asNode = "planner" /\ outcome = "researcher"
    /\ preNext = {"writer"}
    /\ pc = "stream" /\ path = << >>
    /\ next = {"researcher"}
    /\ msg = "a" /\ Get(values, "user_feedback", "") = "a"

\* the evaluator and output conjuncts of C31 alone
C31_LaterStagesOrdered ==
    [][ /\ path' = Append(path, "evaluator") =>
              path # << >> /\ Last(path) = "writer"
        /\ path' = Append(path, "output") => "evaluator" \in ran
      ]_vars

\* C33: an intent set by the edit or re-research button applies to exactly
\* the next processed message: once main has accepted a message, and until a
\* button is clicked again, the session's intent is None
C33_IntentConsumed ==
    pc # "idle" => intent = "none"

\* C34: the busy flag is always released: a call of main is accepted only
\* with the flag clear and sets it; every return of main, after a completed
\* run, a suspension or a raising stage, leaves the flag clear; while the
\* flag is set no other call starts, and the checkpoint changes only by a
\* stage of the running call
C34_BusyFlag ==
    [][ /\ pc = "idle" /\ pc' = "stream" => ~is_processing /\ is_processing'
        /\ pc' = "idle" => ~is_processing'
        /\ is_processing /\ pc # "idle" =>
              /\ pc' # "idle" => msg' = msg /\ pre' = pre /\ preNext' = preNext
              /\ \/ values' = values /\ next' = next
                 \/ \E node \in next : path' = Append(path, node)
      ]_vars

\* a call that a raising stage ended has returned with the flag clear
C34_Witness ==
    /\ pc = "idle" /\ outcome = "error" /\ failures > 0
    /\ ~is_processing
    /\ next # {}

\* every model call of a stage returns or raises, and the event loop runs
\* main on until it returns
FairSpec ==
    Spec /\ WF_vars(RunPlanner \/ RunAskUser \/ RunResearcher \/ RunWriter
                     \/ RunEvaluator \/ RunOutput \/ MainFinish)

\* the liveness side of C34: a set flag is eventually cleared
C34_Released == is_processing ~> ~is_processing

\* C35: the final proposal message is sent only when the graph has fully
\* completed: a call of main that returns has sent it exactly when nothing
\* is pending and draft is non-empty, and a call that returns with the
\* session suspended after ask_user or after researcher has not sent it
C35_FinalProposalOnlyWhenComplete ==
    [][ pc # "idle" /\ pc' = "idle" =>
          /\ shown' <=> (next' = {} /\ Get(values', "draft", "") # "")
          /\ next' \in {{"researcher"}, {"writer"}} => ~shown'
      ]_vars

\* a call returned suspended after researcher with a draft of an earlier
\* pass in the checkpoint, and sent no final proposal
C35_Witness ==
    /\ pc = "idle" /\ outcome = "researcher" /\ next = {"writer"}
    /\ Get(values, "draft", "") # ""
    /\ ~shown

\* C36: a fresh run started in a session whose previous run has completed
\* begins with revision_count = 0, score = 0.0 and empty user_feedback; a
\* resume leaves revision_count as it is and within a call it grows by one
\* per evaluator pass, so it counts the passes of the current run alone and
\* the cap applies to each run separately
C36_FreshRunResets ==
    [][ /\ FreshStart /\ outcome = "completed" =>
              /\ Get(values', "revision_count", -1) = 0
              /\ Get(values', "score", -1) = 0
              /\ Get(values', "user_feedback", "none") = ""
        /\ pc' # "idle" =>
              Get(values', "revision_count", 0) =
                 (IF preNext' = {} THEN 0 ELSE Get(pre', "revision_count", 0))
                 + Count(path', "evaluator")
      ]_vars

\* a run started on a thread whose completed run had used up the cap has
\* itself made MAX_ITERATIONS evaluator passes
C36_Witness ==
    /\ pc = "post" /\ outcome = "completed"
    /\ MAX_ITERATIONS = MaxCap
    /\ Count(path, "evaluator") = MAX_ITERATIONS
    /\ Get(pre, "revision_count", 0) = 0
    /\ Get(pre, "critique", "") # ""
    /\ Get(values, "revision_count", 0) = MAX_ITERATIONS

\* the update the stage that has just completed returned
LastOutput == [k \in written |-> values[k]]

\* C37: the evaluator scorecard agrees with the router: for every score and
\* revision_count written by an evaluator pass, _finish_evaluator announces
\* "Revising draft" exactly when route_evaluator returns "writer", and
\* announces that the quality bar is met only when it returns "output"
C37_ScorecardAgreesWithRouter ==
    [][ EvaluatorRan =>
          /\ finish_evaluator(LastOutput') = "revising"
                <=> route_evaluator(values') = "writer"
          /\ finish_evaluator(LastOutput') = "excellent"
                => route_evaluator(values') = "output"
          /\ next' = {route_evaluator(values')}
      ]_vars

\* the cap, not the score, ends the loop: nothing is announced and the
\* router returns "output"
C37_Witness ==
    /\ path # << >> /\ Last(path) = "evaluator"
    /\ Get(values, "score", 0) < QUALITY_THRESHOLD
    /\ Get(values, "revision_count", 0) = MAX_ITERATIONS
    /\ finish_evaluator(LastOutput) = "none"
    /\ next = {"output"}

\* the stores a sequence of calls can leave, run one after the other
RECURSIVE SeqResults(_, _)
SeqResults(d, reqs) ==
    IF reqs = << >> THEN {d}
    ELSE UNION { SeqResults(d2, Tail(reqs)) : d2 \in CallResults(d, Head(reqs)) }

\* the calls of the batch that have returned, in the order they returned
Returned == [k \in 1..Len(call.order) |-> call.tasks[call.order[k]]]

\* C38: no update of the JSON store is lost under concurrency: whenever no
\* coroutine is inside its critical section the store equals the result of
\* running the returned calls one after the other in some order, and once n
\* concurrent create_step calls on one thread have returned the thread holds
\* n more steps
C38_NoLostUpdate ==
    call.op = "gather" /\ Inside = {} =>
        /\ disk \in SeqResults(call.start, Returned)
        /\ \A t \in ThreadIds :
             ( /\ \A i \in DOMAIN call.tasks :
                    /\ call.phase[i] = "done"
                    /\ call.tasks[i].op = "create_step"
                    /\ call.tasks[i].step_dict.threadId = t )
             => /\ t \in DOMAIN disk
                /\ Len(disk[t].steps) =
                     Len(ReadThread(call.start, t).steps) + Len(call.tasks)

\* three concurrent create_step calls on a thread that held one step
C38_Witness ==
    /\ call.op = "gather"
    /\ Len(call.tasks) = MaxTasks
    /\ \A i \in DOMAIN call.tasks :
          call.phase[i] = "done" /\ call.tasks[i].op = "create_step"
                                 /\ call.tasks[i].step_dict.threadId = "t1"
    /\ "t1" \in DOMAIN call.start
    /\ Len(disk["t1"].steps) = MaxTasks + 1

\* the threads of the store that pass the filters of the current request
Matching ==
    { t \in DOMAIN disk :
        Matches(WithUserIdentifier(PageThread(disk, t)),
                call.userId, call.search) }

\* position of a file in the directory listing
ListedAt(t) == CHOOSE i \in DOMAIN call.listing : call.listing[i] = t

\* a comes before b in the newest-first order
Precedes(a, b) ==
    LET ca == Get(disk[a], "createdAt", 0)
        cb == Get(disk[b], "createdAt", 0)
    IN  ca > cb \/ (ca = cb /\ ListedAt(a) < ListedAt(b))

\* the matching threads a page may hold: those after the cursor's thread,
\* all of them without a cursor
AfterCursor ==
    IF call.cursor \in Matching
    THEN { t \in Matching : Precedes(call.cursor, t) }
    ELSE Matching

PageIds == { call.response.data[i].id : i \in DOMAIN call.response.data }

\* C39: list_threads pagination: the page holds matching threads only,
\* newest first by createdAt, at most pagination.first of them, and they are
\* the first threads after the cursor's thread; hasNextPage is true exactly
\* when matching threads remain after the page; following endCursor from the
\* top of an unchanged store visits no thread twice and has visited every
\* matching thread when hasNextPage turns false
C39_Pagination ==
    call.op = "list_threads" =>
        LET data == call.response.data
            info == call.response.pageInfo
        IN  /\ Len(data) <= call.first
            /\ Cardinality(PageIds) = Len(data)
            /\ PageIds \subseteq AfterCursor
            /\ \A i, j \in DOMAIN data :
                  i < j => /\ Precedes(data[i].id, data[j].id)
                           /\ Get(data[i], "createdAt", 0)
                                 >= Get(data[j], "createdAt", 0)
            /\ \A t \in PageIds, u \in AfterCursor :
                  Precedes(u, t) => u \in PageIds
            /\ info.hasNextPage <=> AfterCursor \ PageIds # {}
            /\ info.endCursor =
                  (IF data = << >> THEN NoneArg ELSE data[Len(data)].id)
            /\ call.fromTop =>
                  /\ \A i, j \in DOMAIN call.visited :
                        i # j => call.visited[i] # call.visited[j]
                  /\ ~info.hasNextPage =>
                        Range(call.visited) = Matching

\* three matching threads, two of them created at the same instant, have
\* been visited in two pages of at most two
C39_Witness ==
    /\ call.op = "list_threads" /\ call.fromTop
    /\ call.first = 2
    /\ Cardinality(Matching) = 3
    /\ \E a, b \in Matching :
          a # b /\ Get(disk[a], "createdAt", 0) = Get(disk[b], "createdAt", 0)
    /\ call.cursor # NoneArg
    /\ ~call.response.pageInfo.hasNextPage
    /\ Len(call.visited) = 3

====
